---------------------------- MODULE Spec2Model ----------------------------
(***************************************************************************)
(* A model of the transform pipeline of torchvision: typed sample values,  *)
(* the dispatchers and their kernel registries, the spatial queries over a *)
(* flattened sample, the randomized transforms (parameters computed once   *)
(* per call and shared by every leaf) and the normalize kernel.            *)
(*                                                                         *)
(* Every call is synchronous and runs on the calling thread, so a call is  *)
(* one action: it draws its inputs (and its random numbers) from bounded   *)
(* sets and records the outcome of the whole call.                         *)
(***************************************************************************)
EXTENDS Integers, Sequences, FiniteSets, TLC

VARIABLES
    tcall,      \* the transform call in flight: [transform, sample] or NoCall
    tresult,    \* its outcome: [status, out, nparams, passed, kernels]
    dcall,      \* the dispatcher call in flight: [op, input, kwargs] or NoCall
    dresult,    \* its outcome: [status, out, kernel]
    qcall,      \* the flattened sample a query runs on, or NoCall
    qresult,    \* the query's outcome: [status, value]
    heap,       \* normalize: the tensors alive, id -> [dtype, ndim, data]
    ncall,      \* normalize: the call in flight: [input, mean, std, inplace]
    nresult,    \* normalize: its outcome: [status, out]
    fcall,      \* the call of a functional or helper in flight: [fn, ...] or NoCall
    fresult     \* its outcome: [status, ...]

vars == <<tcall, tresult, dcall, dresult, qcall, qresult, heap, ncall, nresult,
          fcall, fresult>>

fvars == <<fcall, fresult>>
tvars == <<tcall, tresult>>
dvars == <<dcall, dresult>>
qvars == <<qcall, qresult>>
nvars == <<heap, ncall, nresult>>

NoCall == [none |-> TRUE]
NoResult == [status |-> "none"]

(***************************************************************************)
(* Bounds of the model.                                                    *)
(***************************************************************************)
MaxLeaves == 2      \* leaves of a flattened sample
MaxSide == 3        \* height and width of the small images
MaxBatch == 2       \* batch size of a Mixup / Cutmix sample
MaxPad == 1         \* padding of a RandomCrop, per side
MaxCoord == 2       \* bounding-box coordinates

(***************************************************************************)
(* Small arithmetic.                                                       *)
(***************************************************************************)
Min(a, b) == IF a <= b THEN a ELSE b
Max(a, b) == IF a >= b THEN a ELSE b

\* Python's round(n / d) for n >= 0, d > 0: to nearest, a tie to the even one.
RoundDiv(n, d) ==
    LET q == n \div d
        r == n % d
    IN  IF 2 * r < d THEN q
        ELSE IF 2 * r > d THEN q + 1
        ELSE IF q % 2 = 0 THEN q ELSE q + 1


(***************************************************************************)
(* Typed sample values.  A leaf is an object (id), its runtime type, its   *)
(* tensor shape, its metadata and coordinates (bounding boxes only) and    *)
(* the kernels that produced its content from the object `src` the caller  *)
(* supplied.  Coordinates are rationals <<numerator, denominator>>.        *)
(***************************************************************************)
TensorTypes == {"Tensor", "Image", "Video", "BoundingBox", "Mask"}
FeatureTypes == {"Image", "Video", "BoundingBox", "Mask"}
LeafTypes == TensorTypes \cup {"PIL", "Object"}
Formats == {"XYXY", "XYWH", "CXCYWH"}

NoMeta == [format |-> "none", canvas |-> <<0, 0>>]

NoData == <<>>

Leaf(type, id, shape, meta, data) ==
    [type |-> type, id |-> id, src |-> id, shape |-> shape, meta |-> meta,
     data |-> data, ops |-> <<>>]

\* Rationals.
Rat(n) == <<n, 1>>
RatEq(a, b) == a[1] * b[2] = b[1] * a[2]
RatAddInt(a, k) == <<a[1] + k * a[2], a[2]>>
RatMul(a, n, d) == <<a[1] * n, a[2] * d>>
BoxEq(a, b) == \A i \in 1..4 : RatEq(a[i], b[i])

\* isinstance(inpt, torch.Tensor) and not isinstance(inpt, features._Feature)
is_simple_tensor(inpt) == inpt.type = "Tensor"

\* isinstance(obj, t) for a type, t(obj) for a check; the checks in use are
\* the types themselves and is_simple_tensor, named "Tensor" here.
isinstance_(obj, types_or_checks) == obj.type \in types_or_checks

has_any(flat_sample, types_or_checks) ==
    \E i \in 1..Len(flat_sample) : isinstance_(flat_sample[i], types_or_checks)

has_all(flat_sample, types_or_checks) ==
    \A t \in types_or_checks : \E i \in 1..Len(flat_sample) : flat_sample[i].type = t


(***************************************************************************)
(* Spatial metadata of a leaf and the queries over a flattened sample.     *)
(***************************************************************************)
\* (H, W): the canvas of a bounding box, the trailing two dimensions otherwise.
spatial_size(leaf) ==
    IF leaf.type = "BoundingBox" THEN leaf.meta.canvas
    ELSE <<leaf.shape[Len(leaf.shape) - 1], leaf.shape[Len(leaf.shape)]>>

has_spatial_size(leaf) ==
    \/ leaf.type = "BoundingBox"
    \/ leaf.type \in {"Image", "Video", "Mask", "PIL", "Tensor"} /\ Len(leaf.shape) >= 2

\* The sizes of the leaves that carry one; none or a disagreement is an error.
query_spatial_size(flat_inputs) ==
    LET sizes == {spatial_size(flat_inputs[i]) :
                    i \in {j \in 1..Len(flat_inputs) : has_spatial_size(flat_inputs[j])}}
    IN  IF sizes = {} THEN [status |-> "TypeError", values |-> {}]
        ELSE IF Cardinality(sizes) > 1 THEN [status |-> "ValueError", values |-> {}]
        ELSE [status |-> "ok", values |-> sizes]

(***************************************************************************)
(* Which leaves of a flattened sample a transform touches.                 *)
(***************************************************************************)
DefaultTransformedTypes == TensorTypes \cup {"PIL"}

\* A leaf is touched when its type is one of the transform's; of the plain
\* tensors only the first, and none when the sample holds an image, a video
\* or a PIL image (so labels, a tensor after an image, are left alone).
needs_transform_list(transformed_types, flat_inputs) ==
    LET transform_simple_tensor == ~has_any(flat_inputs, {"Image", "Video", "PIL"})
        first_simple == {i \in 1..Len(flat_inputs) :
                            /\ is_simple_tensor(flat_inputs[i])
                            /\ flat_inputs[i].type \in transformed_types
                            /\ \A j \in 1..(i - 1) :
                                  ~(is_simple_tensor(flat_inputs[j])
                                    /\ flat_inputs[j].type \in transformed_types)}
    IN  [i \in 1..Len(flat_inputs) |->
            /\ flat_inputs[i].type \in transformed_types
            /\ is_simple_tensor(flat_inputs[i]) => (transform_simple_tensor /\ i \in first_simple)]

\* The leaves a transform touches, in flatten order.
RECURSIVE SelectNeeded(_, _)
SelectNeeded(flat_inputs, needs) ==
    IF flat_inputs = <<>> THEN <<>>
    ELSE LET rest == SelectNeeded(Tail(flat_inputs), Tail(needs))
         IN  IF Head(needs) THEN <<Head(flat_inputs)>> \o rest ELSE rest

\* tree_flatten / tree_unflatten: a sample is its tree spec and its leaves in
\* document order; unflattening puts the leaves back at their positions.
tree_flatten(sample) == <<sample.flat, sample.spec>>
tree_unflatten(flat_outputs, spec) == [spec |-> spec, flat |-> flat_outputs]

NoParams == [none |-> TRUE]
NoSample == [spec |-> 0, flat |-> <<>>, labels |-> 0]
NoLeaf == Leaf("none", 0, <<>>, NoMeta, NoData)

\* The object a kernel returns: a new object holding the kernel's result.
KernelOutput(inpt, kernel, args, newid) ==
    [inpt EXCEPT !.id = newid, !.ops = Append(@, [kernel |-> kernel, args |-> args])]

\* The outcome of a transform call that raised: nothing is returned.
Raised(error, nparams) ==
    [status |-> error, out |-> NoSample, nparams |-> nparams, passed |-> <<>>, kernels |-> 0]
(***************************************************************************)
(* Mixup and Cutmix (transforms/v2/_augment.py).                           *)
(***************************************************************************)
NumCategories == 2

\* lam is drawn from Beta(alpha, alpha).  The draws kept are those whose
\* sqrt(1 - lam) is a multiple of 1/4: lam = (16 - s * s) / 16, s in 0..4.
LamRoots == 0..4
LamOf(s) == <<16 - s * s, 16>>

Mixup_get_params(flat_inputs) == {[status |-> "ok", lam |-> LamOf(s)] : s \in LamRoots}

\* r = 0.5 * sqrt(1 - lam) = s / 8; int() truncates.
Cutmix_get_params(flat_inputs) ==
    LET q == query_spatial_size(flat_inputs)
    IN  IF q.status # "ok" THEN {[status |-> q.status]}
        ELSE LET hw == CHOOSE x \in q.values : TRUE
                 H == hw[1]
                 W == hw[2]
             IN  {LET r_w_half == (s * W) \div 8
                      r_h_half == (s * H) \div 8
                      x1 == Max(r_x - r_w_half, 0)
                      y1 == Max(r_y - r_h_half, 0)
                      x2 == Min(r_x + r_w_half, W)
                      y2 == Min(r_y + r_h_half, H)
                  IN  [status |-> "ok",
                       box |-> <<x1, y1, x2, y2>>,
                       lam_adjusted |-> <<W * H - (x2 - x1) * (y2 - y1), W * H>>]
                  : s \in LamRoots, r_x \in 0..(W - 1), r_y \in 0..(H - 1)}

\* _check_image_or_video: the error it raises, or "ok".
check_image_or_video(inpt, batch_size) ==
    LET expected_num_dims == IF inpt.type = "Video" THEN 5 ELSE 4
    IN  IF Len(inpt.shape) # expected_num_dims THEN "ValueError"
        ELSE IF inpt.shape[1] # batch_size THEN "ValueError"
        ELSE "ok"

\* one_hot(label, num_classes), cast to float, rolled and blended with lam.
mixup_label(label, lam, newid) ==
    [KernelOutput(label, "mixup_label", [lam |-> lam], newid)
        EXCEPT !.shape = <<label.shape[1], NumCategories>>]

\* Mixup._transform: [status, out], out the leaf returned.
Mixup_transform(inpt, params, newid) ==
    IF inpt.id = params.labels
    THEN [status |-> "ok", out |-> mixup_label(inpt, params.lam, newid)]
    ELSE IF inpt.type \in {"Image", "Video"} \/ is_simple_tensor(inpt)
    THEN LET c == check_image_or_video(inpt, params.batch_size)
         IN  IF c # "ok" THEN [status |-> c, out |-> inpt]
             ELSE [status |-> "ok",
                   out |-> KernelOutput(inpt, "mixup", [lam |-> params.lam], newid)]
    ELSE [status |-> "ok", out |-> inpt]

\* Cutmix._transform
Cutmix_transform(inpt, params, newid) ==
    IF inpt.id = params.labels
    THEN [status |-> "ok", out |-> mixup_label(inpt, params.lam_adjusted, newid)]
    ELSE IF inpt.type \in {"Image", "Video"} \/ is_simple_tensor(inpt)
    THEN LET c == check_image_or_video(inpt, params.batch_size)
         IN  IF c # "ok" THEN [status |-> c, out |-> inpt]
             ELSE [status |-> "ok",
                   out |-> KernelOutput(inpt, "cutmix", [box |-> params.box], newid)]
    ELSE [status |-> "ok", out |-> inpt]

(***************************************************************************)
(* The geometric kernels of transforms.v2.functional, one specialization   *)
(* per kind of value: pixel content is the record of the kernels applied,  *)
(* shapes, canvas sizes and box coordinates are computed.                  *)
(***************************************************************************)
RatAdd(a, b) == <<a[1] * b[2] + b[1] * a[2], a[2] * b[2]>>
IntMinusRat(k, a) == <<k * a[2] - a[1], a[2]>>
RatSub(a, b) == <<a[1] * b[2] - b[1] * a[2], a[2] * b[2]>>
RatHalf(a) == <<a[1], 2 * a[2]>>

\* The corners (x1, y1, x2, y2) of a box written in a format.
ToXYXY(box, format) ==
    IF format = "XYXY" THEN box
    ELSE IF format = "XYWH"
    THEN <<box[1], box[2], RatAdd(box[1], box[3]), RatAdd(box[2], box[4])>>
    ELSE <<RatSub(box[1], RatHalf(box[3])), RatSub(box[2], RatHalf(box[4])),
           RatAdd(box[1], RatHalf(box[3])), RatAdd(box[2], RatHalf(box[4]))>>

SetHW(shape, h, w) ==
    [i \in 1..Len(shape) |->
        IF i = Len(shape) - 1 THEN h ELSE IF i = Len(shape) THEN w ELSE shape[i]]

\* x' = canvas_width - x, x_min and x_max swapped.
horizontal_flip_bounding_box(box, format, W) ==
    IF format = "XYXY" THEN <<IntMinusRat(W, box[3]), box[2], IntMinusRat(W, box[1]), box[4]>>
    ELSE IF format = "XYWH" THEN <<IntMinusRat(W, RatAdd(box[1], box[3])), box[2], box[3], box[4]>>
    ELSE <<IntMinusRat(W, box[1]), box[2], box[3], box[4]>>

vertical_flip_bounding_box(box, format, H) ==
    IF format = "XYXY" THEN <<box[1], IntMinusRat(H, box[4]), box[3], IntMinusRat(H, box[2])>>
    ELSE IF format = "XYWH" THEN <<box[1], IntMinusRat(H, RatAdd(box[2], box[4])), box[3], box[4]>>
    ELSE <<box[1], IntMinusRat(H, box[2]), box[3], box[4]>>

\* Every coordinate of a corner shifts by (dx, dy); widths and heights stay.
shift_bounding_box(box, format, dx, dy) ==
    IF format = "XYXY"
    THEN <<RatAddInt(box[1], dx), RatAddInt(box[2], dy), RatAddInt(box[3], dx), RatAddInt(box[4], dy)>>
    ELSE <<RatAddInt(box[1], dx), RatAddInt(box[2], dy), box[3], box[4]>>

\* Coordinates scale by new / old, widths by the width ratio, heights by the
\* height ratio, in every format.
resize_bounding_box(box, old_image_size, new_image_size) ==
    <<RatMul(box[1], new_image_size[2], old_image_size[2]),
      RatMul(box[2], new_image_size[1], old_image_size[1]),
      RatMul(box[3], new_image_size[2], old_image_size[2]),
      RatMul(box[4], new_image_size[1], old_image_size[1])>>

\* The pixels of an image or a mask, where they are followed: a grid of
\* pixel values, rows of columns, each pixel of the source a value of its
\* own above 0; NoData where the content is not followed.
Pixels(hw) == [r \in 1..hw[1] |-> [c \in 1..hw[2] |-> (r - 1) * hw[2] + c]]

GridW(grid) == IF grid = <<>> THEN 0 ELSE Len(grid[1])

\* The mirror image along the width and along the height.
flip_pixels_w(grid) ==
    [r \in 1..Len(grid) |-> [c \in 1..GridW(grid) |-> grid[r][GridW(grid) + 1 - c]]]

flip_pixels_h(grid) == [r \in 1..Len(grid) |-> grid[Len(grid) + 1 - r]]

\* The frame of a padded image holds the fill value 0 in constant mode and
\* values taken from the image (-1) in the other modes.
pad_pixels(grid, padding, padding_mode) ==
    IF grid = <<>> THEN <<>>
    ELSE [r \in 1..(Len(grid) + padding[2] + padding[4]) |->
            [c \in 1..(GridW(grid) + padding[1] + padding[3]) |->
                IF /\ r - padding[2] \in 1..Len(grid)
                   /\ c - padding[1] \in 1..GridW(grid)
                THEN grid[r - padding[2]][c - padding[1]]
                ELSE IF padding_mode = "constant" THEN 0 ELSE -1]]

\* The window of the image, zeros where it leaves the image.
crop_pixels(grid, top, left, height, width) ==
    IF grid = <<>> THEN <<>>
    ELSE [r \in 1..height |->
            [c \in 1..width |->
                IF r + top \in 1..Len(grid) /\ c + left \in 1..GridW(grid)
                THEN grid[r + top][c + left]
                ELSE 0]]

F_horizontal_flip(inpt, newid) ==
    IF inpt.type = "BoundingBox"
    THEN [KernelOutput(inpt, "horizontal_flip_bounding_box", NoParams, newid) EXCEPT
             !.data = horizontal_flip_bounding_box(inpt.data, inpt.meta.format, inpt.meta.canvas[2])]
    ELSE [KernelOutput(inpt, "horizontal_flip", NoParams, newid) EXCEPT
             !.data = flip_pixels_w(@)]

F_vertical_flip(inpt, newid) ==
    IF inpt.type = "BoundingBox"
    THEN [KernelOutput(inpt, "vertical_flip_bounding_box", NoParams, newid) EXCEPT
             !.data = vertical_flip_bounding_box(inpt.data, inpt.meta.format, inpt.meta.canvas[1])]
    ELSE [KernelOutput(inpt, "vertical_flip", NoParams, newid) EXCEPT
             !.data = flip_pixels_h(@)]

\* _parse_pad_padding: the padding argument of one, two or four values as
\* [pad_left, pad_right, pad_top, pad_bottom]: one value for all borders,
\* two for left/right and top/bottom, four for left, top, right, bottom.
parse_pad_padding(padding) ==
    IF Len(padding) = 1 THEN <<padding[1], padding[1], padding[1], padding[1]>>
    ELSE IF Len(padding) = 2 THEN <<padding[1], padding[1], padding[2], padding[2]>>
    ELSE <<padding[1], padding[3], padding[2], padding[4]>>

\* padding holds one value, two values or (left, top, right, bottom).
F_pad(inpt, padding, padding_mode, newid) ==
    LET parsed == parse_pad_padding(padding)
        left == parsed[1]
        right == parsed[2]
        top == parsed[3]
        bottom == parsed[4]
        hw == spatial_size(inpt)
        nh == hw[1] + top + bottom
        nw == hw[2] + left + right
        args == [padding |-> padding, padding_mode |-> padding_mode]
    IN  IF inpt.type = "BoundingBox"
        THEN [KernelOutput(inpt, "pad_bounding_box", args, newid) EXCEPT
                 !.data = shift_bounding_box(inpt.data, inpt.meta.format, left, top),
                 !.meta.canvas = <<nh, nw>>]
        ELSE [KernelOutput(inpt, "pad", args, newid) EXCEPT
                 !.shape = SetHW(@, nh, nw),
                 !.data = pad_pixels(@, <<left, top, right, bottom>>, padding_mode)]

F_crop(inpt, top, left, height, width, newid) ==
    LET args == [top |-> top, left |-> left, height |-> height, width |-> width]
    IN  IF inpt.type = "BoundingBox"
        THEN [KernelOutput(inpt, "crop_bounding_box", args, newid) EXCEPT
                 !.data = shift_bounding_box(inpt.data, inpt.meta.format, -left, -top),
                 !.meta.canvas = <<height, width>>]
        ELSE [KernelOutput(inpt, "crop", args, newid) EXCEPT
                 !.shape = SetHW(@, height, width),
                 !.data = crop_pixels(@, top, left, height, width)]

F_elastic(inpt, displacement, newid) ==
    KernelOutput(inpt, "elastic", [displacement |-> displacement], newid)

F_perspective(inpt, coefficients, newid) ==
    KernelOutput(inpt, "perspective", [coefficients |-> coefficients], newid)

\* erase writes v over the window; in place it returns the input object.
F_erase(inpt, params, inplace, newid) ==
    KernelOutput(inpt, "erase", params, IF inplace THEN inpt.id ELSE newid)

(***************************************************************************)
(* resize: the output size and the kernels.  size holds one edge length or *)
(* (H, W); max_size is <<>> (None) or <<m>>.                               *)
(***************************************************************************)
NoMaxSize == <<>>

compute_resized_output_size(hw, size, max_size) ==
    IF Len(size) = 1
    THEN LET short == Min(hw[1], hw[2])
             long == Max(hw[1], hw[2])
             requested == size[1]
             scaled_long == RoundDiv(long * requested, short)
             capped == max_size # NoMaxSize /\ scaled_long > max_size[1]
             new_short == IF capped THEN RoundDiv(max_size[1] * requested, scaled_long)
                          ELSE requested
             new_long == IF capped THEN max_size[1] ELSE scaled_long
         IN  IF max_size # NoMaxSize /\ max_size[1] <= requested
             THEN [status |-> "ValueError", hw |-> <<0, 0>>]
             ELSE [status |-> "ok",
                   hw |-> IF hw[2] <= hw[1] THEN <<new_long, new_short>>
                          ELSE <<new_short, new_long>>]
    ELSE IF max_size # NoMaxSize THEN [status |-> "ValueError", hw |-> <<0, 0>>]
    ELSE [status |-> "ok", hw |-> <<size[1], size[2]>>]

\* F.resize of transforms.v2: every kind of value goes through the same size
\* computation; a bounding box has its coordinates scaled and its canvas set.
F_resize(inpt, size, max_size, newid) ==
    LET old == spatial_size(inpt)
        new == compute_resized_output_size(old, size, max_size)
        args == [size |-> size, max_size |-> max_size]
    IN  IF new.status # "ok" THEN [status |-> new.status, out |-> inpt]
        ELSE IF inpt.type = "BoundingBox"
        THEN [status |-> "ok",
              out |-> [KernelOutput(inpt, "resize_bounding_box", args, newid) EXCEPT
                          !.data = resize_bounding_box(inpt.data, old, new.hw),
                          !.meta.canvas = new.hw]]
        ELSE [status |-> "ok",
              out |-> [KernelOutput(inpt, "resize", args, newid) EXCEPT
                          !.shape = SetHW(@, new.hw[1], new.hw[2])]]

(***************************************************************************)
(* The spatial query of prototype/transforms/_utils.py.                    *)
(***************************************************************************)
\* (C, H, W) of an image-like leaf: the trailing three dimensions.
get_chw(item) ==
    <<item.shape[Len(item.shape) - 2], item.shape[Len(item.shape) - 1], item.shape[Len(item.shape)]>>

\* query_chw with the sample already flattened.  values: what chws.pop() may
\* return, any element of the set.
\* The module that defines query_chw neither defines nor imports get_chw:
\* get_chw_bound tells whether the name is bound when the call is made; if
\* it is not, the first image-like leaf raises a NameError.
query_chw(flat_sample, get_chw_bound) ==
    LET items == {i \in 1..Len(flat_sample) :
                     flat_sample[i].type \in {"Image", "PIL"} \/ is_simple_tensor(flat_sample[i])}
        chws == {get_chw(flat_sample[i]) : i \in items}
    IN  IF items # {} /\ ~get_chw_bound THEN [status |-> "NameError", values |-> {}]
        ELSE IF chws = {} THEN [status |-> "TypeError", values |-> {}]
        ELSE IF Cardinality(chws) > 2 THEN [status |-> "TypeError", values |-> {}]
        ELSE [status |-> "ok", values |-> chws]

(***************************************************************************)
(* The transforms of transforms/v2/_geometry.py and _augment.py: for each, *)
(* _get_params (the set of parameter sets a call may draw, or the error it *)
(* raises) and _transform (the leaf it returns, or the error).             *)
(*                                                                         *)
(* A transform is a record self: cls, p (the probability, in units of      *)
(* 1 / PDen), size, max_size, padding (parsed: left, right, top, bottom,   *)
(* or <<>> for None), pad_if_needed, padding_mode, inplace.                *)
(***************************************************************************)
PDen == 2
NoiseDraws == 2
ErasingAttempts == 10

OkNoParams == [status |-> "ok"]

\* RandomCrop._get_params without the pad_if_needed branch.
RandomCrop_get_params_nopad(self, flat_inputs) ==
    LET q == query_spatial_size(flat_inputs)
    IN  IF q.status # "ok" THEN {[status |-> q.status]}
        ELSE
        LET hw == CHOOSE x \in q.values : TRUE
            given == self.padding # <<>>
            pad_left == IF given THEN self.padding[1] ELSE 0
            pad_right == IF given THEN self.padding[2] ELSE 0
            pad_top == IF given THEN self.padding[3] ELSE 0
            pad_bottom == IF given THEN self.padding[4] ELSE 0
            padded_height == hw[1] + pad_top + pad_bottom
            padded_width == hw[2] + pad_left + pad_right
            cropped_height == self.size[1]
            cropped_width == self.size[2]
            padding == <<pad_left, pad_top, pad_right, pad_bottom>>
            needs_vert_crop == padded_height > cropped_height
            needs_horz_crop == padded_width > cropped_width
        IN  IF padded_height < cropped_height \/ padded_width < cropped_width
            THEN {[status |-> "ValueError"]}
            ELSE {[status |-> "ok",
                   needs_crop |-> needs_vert_crop \/ needs_horz_crop,
                   top |-> top, left |-> left,
                   height |-> cropped_height, width |-> cropped_width,
                   needs_pad |-> \E k \in 1..4 : padding[k] # 0,
                   padding |-> padding]
                  : top \in (IF needs_vert_crop THEN 0..(padded_height - cropped_height) ELSE {0}),
                    left \in (IF needs_horz_crop THEN 0..(padded_width - cropped_width) ELSE {0})}

RandomCrop_get_params(self, flat_inputs) ==
    LET q == query_spatial_size(flat_inputs)
    IN  IF q.status # "ok" THEN {[status |-> q.status]}
        ELSE
        LET hw == CHOOSE x \in q.values : TRUE
            given == self.padding # <<>>
            pad_left0 == IF given THEN self.padding[1] ELSE 0
            pad_right0 == IF given THEN self.padding[2] ELSE 0
            pad_top0 == IF given THEN self.padding[3] ELSE 0
            pad_bottom0 == IF given THEN self.padding[4] ELSE 0
            padded_height0 == hw[1] + pad_top0 + pad_bottom0
            padded_width0 == hw[2] + pad_left0 + pad_right0
            cropped_height == self.size[1]
            cropped_width == self.size[2]
            diff_h == IF self.pad_if_needed /\ padded_height0 < cropped_height
                      THEN cropped_height - padded_height0 ELSE 0
            diff_w == IF self.pad_if_needed /\ padded_width0 < cropped_width
                      THEN cropped_width - padded_width0 ELSE 0
            padded_height == padded_height0 + 2 * diff_h
            padded_width == padded_width0 + 2 * diff_w
            padding == <<pad_left0 + diff_w, pad_top0 + diff_h,
                         pad_right0 + diff_w, pad_bottom0 + diff_h>>
            needs_vert_crop == padded_height > cropped_height
            needs_horz_crop == padded_width > cropped_width
        IN  IF padded_height < cropped_height \/ padded_width < cropped_width
            THEN {[status |-> "ValueError"]}
            ELSE {[status |-> "ok",
                   needs_crop |-> needs_vert_crop \/ needs_horz_crop,
                   top |-> top, left |-> left,
                   height |-> cropped_height, width |-> cropped_width,
                   needs_pad |-> \E k \in 1..4 : padding[k] # 0,
                   padding |-> padding]
                  : top \in (IF needs_vert_crop THEN 0..(padded_height - cropped_height) ELSE {0}),
                    left \in (IF needs_horz_crop THEN 0..(padded_width - cropped_width) ELSE {0})}

\* RandomCrop._transform cropping at the corner of the padded input.
RandomCrop_transform_corner(self, inpt, params, newid) ==
    LET padded == IF params.needs_pad
                  THEN F_pad(inpt, params.padding, self.padding_mode, newid) ELSE inpt
    IN  [status |-> "ok",
         out |-> IF params.needs_crop
                 THEN F_crop(padded, 0, 0, params.height, params.width, newid)
                 ELSE padded]

RandomCrop_transform(self, inpt, params, newid) ==
    LET padded == IF params.needs_pad
                  THEN F_pad(inpt, params.padding, self.padding_mode, newid) ELSE inpt
    IN  [status |-> "ok",
         out |-> IF params.needs_crop
                 THEN F_crop(padded, params.top, params.left, params.height, params.width, newid)
                 ELSE padded]

\* The displacement field is a function of the noise drawn and of the size.
ElasticTransform_get_params(self, flat_inputs) ==
    LET q == query_spatial_size(flat_inputs)
    IN  IF q.status # "ok" THEN {[status |-> q.status]}
        ELSE {[status |-> "ok",
               displacement |-> [noise |-> k, size |-> CHOOSE x \in q.values : TRUE]]
              : k \in 1..NoiseDraws}

ElasticTransform_transform(self, inpt, params, newid) ==
    [status |-> "ok", out |-> F_elastic(inpt, params.displacement, newid)]

\* RandomHorizontalFlip._transform handing its input back.
RandomHorizontalFlip_transform_noop(self, inpt, params, newid) ==
    [status |-> "ok", out |-> inpt]

RandomHorizontalFlip_transform(self, inpt, params, newid) ==
    [status |-> "ok", out |-> F_horizontal_flip(inpt, newid)]

RandomVerticalFlip_transform(self, inpt, params, newid) ==
    [status |-> "ok", out |-> F_vertical_flip(inpt, newid)]

\* side_range is (1.0, 4.0); a uniform draw is k / 2, k in 0..1, so that
\* r = 1 + 3 * k / 2, and int() truncates.
RandomZoomOut_get_params(self, flat_inputs) ==
    LET q == query_spatial_size(flat_inputs)
    IN  IF q.status # "ok" THEN {[status |-> q.status]}
        ELSE LET hw == CHOOSE x \in q.values : TRUE
             IN  {LET canvas_width == (hw[2] * (2 + 3 * k)) \div 2
                      canvas_height == (hw[1] * (2 + 3 * k)) \div 2
                      left == ((canvas_width - hw[2]) * r0) \div 2
                      top == ((canvas_height - hw[1]) * r1) \div 2
                      right == canvas_width - (left + hw[2])
                      bottom == canvas_height - (top + hw[1])
                  IN  [status |-> "ok", padding |-> <<left, top, right, bottom>>]
                  : k \in 0..1, r0 \in 0..1, r1 \in 0..1}

RandomZoomOut_transform(self, inpt, params, newid) ==
    [status |-> "ok", out |-> F_pad(inpt, params.padding, "constant", newid)]

\* distortion_scale is 0.5; the coefficients are a function of the endpoints.
RandomPerspective_get_params(self, flat_inputs) ==
    LET q == query_spatial_size(flat_inputs)
    IN  IF q.status # "ok" THEN {[status |-> q.status]}
        ELSE LET hw == CHOOSE x \in q.values : TRUE
                 height == hw[1]
                 width == hw[2]
                 bound_height == ((height \div 2) \div 2) + 1
                 bound_width == ((width \div 2) \div 2) + 1
                 lowx == 0..(bound_width - 1)
                 lowy == 0..(bound_height - 1)
                 highx == (width - bound_width)..(width - 1)
                 highy == (height - bound_height)..(height - 1)
             IN  {[status |-> "ok",
                   coefficients |-> [endpoints |-> <<tl, tr, br, bl>>, size |-> hw]]
                  : tl \in lowx \X lowy, tr \in highx \X lowy,
                    br \in highx \X highy, bl \in lowx \X highy}

RandomPerspective_transform(self, inpt, params, newid) ==
    [status |-> "ok", out |-> F_perspective(inpt, params.coefficients, newid)]

\* RandomErasing: each of the attempts draws a window (h, w); the first that
\* fits is placed at a random (i, j); after the last, the whole image with
\* v = None.  value is one number, so its length fits every channel count.
RECURSIVE ErasingOutcomes(_, _, _)
ErasingOutcomes(img_h, img_w, attempts) ==
    IF attempts = 0
    THEN {[status |-> "ok", i |-> 0, j |-> 0, h |-> img_h, w |-> img_w, v_is_none |-> TRUE]}
    ELSE LET fits == {o \in [status : {"ok"}, i : 0..img_h, j : 0..img_w,
                             h : 0..img_h, w : 0..img_w, v_is_none : {FALSE}] :
                         /\ o.h < img_h /\ o.w < img_w
                         /\ o.i <= img_h - o.h /\ o.j <= img_w - o.w}
         IN  fits \cup ErasingOutcomes(img_h, img_w, attempts - 1)

\* query_chw of transforms.v2.utils: the one (C, H, W) of the images, videos
\* and plain tensors of the sample.
v2_query_chw(flat_inputs) ==
    LET chws == {get_chw(flat_inputs[i]) :
                    i \in {j \in 1..Len(flat_inputs) :
                              /\ flat_inputs[j].type \in {"Image", "PIL", "Video", "Tensor"}
                              /\ Len(flat_inputs[j].shape) >= 3}}
    IN  IF chws = {} THEN [status |-> "TypeError", values |-> {}]
        ELSE IF Cardinality(chws) > 1 THEN [status |-> "ValueError", values |-> {}]
        ELSE [status |-> "ok", values |-> chws]

RandomErasing_get_params(self, flat_inputs) ==
    LET q == v2_query_chw(flat_inputs)
    IN  IF q.status # "ok" THEN {[status |-> q.status]}
        ELSE UNION {ErasingOutcomes(chw[2], chw[3], ErasingAttempts) : chw \in q.values}

RandomErasing_transform(self, inpt, params, newid) ==
    [status |-> "ok",
     out |-> IF ~params.v_is_none
             THEN F_erase(inpt, [i |-> params.i, j |-> params.j, h |-> params.h, w |-> params.w],
                          self.inplace, newid)
             ELSE inpt]

\* Resize._transform not handing max_size on.
Resize_transform_nomax(self, inpt, params, newid) ==
    F_resize(inpt, self.size, NoMaxSize, newid)

\* Resize._transform handing on a max_size one too large.
Resize_transform_loosecap(self, inpt, params, newid) ==
    F_resize(inpt, self.size,
             IF self.max_size = NoMaxSize THEN NoMaxSize ELSE <<self.max_size[1] + 1>>, newid)

Resize_transform(self, inpt, params, newid) ==
    F_resize(inpt, self.size, self.max_size, newid)

(***************************************************************************)
(* The calls of a transform.  The outcome of one call is a record: status  *)
(* ("ok" or the error raised), out (the sample returned), nparams (how     *)
(* often _get_params ran), passed (for each leaf, the parameters its       *)
(* _transform received, NoParams if it was passed through), kernels (the   *)
(* leaves a kernel replaced).  A forward operator is the set of outcomes   *)
(* of the call, one per random draw.                                       *)
(***************************************************************************)
RandomApplyClasses ==
    {"RandomHorizontalFlip", "RandomVerticalFlip", "RandomZoomOut",
     "RandomPerspective", "RandomErasing"}
MixupCutmixClasses == {"Mixup", "Cutmix"}
PlainClasses == {"RandomCrop", "ElasticTransform", "Resize"}

(***************************************************************************)
(* RandomIoUCrop (transforms/v2/_geometry.py) and query_bounding_box.      *)
(***************************************************************************)
\* query_bounding_box returning the last bounding box of the sample.
query_bounding_box_last(flat_sample) ==
    LET boxes == {i \in 1..Len(flat_sample) : flat_sample[i].type = "BoundingBox"}
    IN  IF boxes = {} THEN [status |-> "TypeError", value |-> NoLeaf]
        ELSE [status |-> "ok",
              value |-> flat_sample[CHOOSE i \in boxes : \A j \in boxes : j <= i]]

\* query_bounding_box: the first bounding box met in the flattened sample.
query_bounding_box(flat_sample) ==
    LET boxes == {i \in 1..Len(flat_sample) : flat_sample[i].type = "BoundingBox"}
    IN  IF boxes = {} THEN [status |-> "TypeError", value |-> NoLeaf]
        ELSE [status |-> "ok",
              value |-> flat_sample[CHOOSE i \in boxes : \A j \in boxes : i <= j]]

\* RandomIoUCrop._check_inputs asking for a bounding box or an image.
RandomIoUCrop_check_inputs_either(flat_inputs) ==
    IF ~(has_all(flat_inputs, {"BoundingBox"})
         \/ has_any(flat_inputs, {"PIL", "Image", "Tensor"}))
    THEN "TypeError" ELSE "ok"

\* RandomIoUCrop._check_inputs: a bounding box and an image, or TypeError.
RandomIoUCrop_check_inputs(flat_inputs) ==
    IF ~(has_all(flat_inputs, {"BoundingBox"})
         /\ has_any(flat_inputs, {"PIL", "Image", "Tensor"}))
    THEN "TypeError" ELSE "ok"

\* RandomIoUCrop._get_params with the default scales [0.3, 1.0] and aspect
\* ratios [0.5, 2.0]: the values the loop can return.  int(orig * r) for r in
\* [0.3, 1.0) is one of (3 * orig) \div 10 .. orig - 1; a height of 0 divides
\* by zero; with min_jaccard_overlap = 0.0 a crop is returned when the center
\* of the box lies strictly inside it.  The sampler options are [0.0, 1.0]:
\* any overlap, or leave the sample as it is.
RandomIoUCrop_get_params(self, flat_inputs) ==
    LET IoUOptions == {0, 1}
        LeaveAsIs == [status |-> "ok", empty |-> TRUE, top |-> 0, left |-> 0,
                      height |-> 0, width |-> 0]
        q == query_spatial_size(flat_inputs)
        b == query_bounding_box(flat_inputs)
    IN  IF q.status # "ok" THEN {[status |-> q.status]}
        ELSE IF b.status # "ok" THEN {[status |-> b.status]}
        ELSE
        LET hw == CHOOSE x \in q.values : TRUE
            orig_h == hw[1]
            orig_w == hw[2]
            scaled(orig) == ((3 * orig) \div 10)..(orig - 1)
            offsets(diff) == IF diff > 0 THEN 0..(diff - 1) ELSE {0}
            xyxy_bboxes == ToXYXY(b.value.data, b.value.meta.format)
            cx == RatHalf(RatAdd(xyxy_bboxes[1], xyxy_bboxes[3]))
            cy == RatHalf(RatAdd(xyxy_bboxes[2], xyxy_bboxes[4]))
            less(x, y) == x[1] * y[2] < y[1] * x[2]
            is_within_crop_area(left, top, right, bottom) ==
                /\ less(Rat(left), cx) /\ less(cx, Rat(right))
                /\ less(Rat(top), cy) /\ less(cy, Rat(bottom))
            candidates ==
                {[status |-> "ok", empty |-> FALSE, top |-> top, left |-> left,
                  height |-> new_h, width |-> new_w]
                 : new_w \in scaled(orig_w), new_h \in scaled(orig_h),
                   top \in 0..orig_h, left \in 0..orig_w}
            valid ==
                {c \in candidates :
                    /\ c.height # 0
                    /\ c.height <= 2 * c.width /\ c.width <= 2 * c.height
                    /\ c.left \in offsets(orig_w - c.width)
                    /\ c.top \in offsets(orig_h - c.height)
                    /\ c.width # 0
                    /\ is_within_crop_area(c.left, c.top, c.left + c.width, c.top + c.height)}
        IN  (IF 1 \in IoUOptions THEN {LeaveAsIs} ELSE {})
            \cup (IF 0 \in IoUOptions THEN valid ELSE {})
            \cup (IF 0 \in IoUOptions /\ 0 \in scaled(orig_h)
                  THEN {[status |-> "ZeroDivisionError"]} ELSE {})

\* RandomIoUCrop._transform: the crop, unless the sample is left as it is.
\* The one box of the first bounding-box leaf lies in the crop area.
RandomIoUCrop_transform(self, inpt, params, newid) ==
    [status |-> "ok",
     out |-> IF params.empty THEN inpt
             ELSE F_crop(inpt, params.top, params.left, params.height, params.width, newid)]

transformed_types(self) ==
    IF self.cls = "RandomErasing" THEN {"Tensor", "Image", "PIL", "Video"}
    ELSE DefaultTransformedTypes

Transform_get_params(self, flat_inputs) ==
    CASE self.cls = "RandomCrop" -> RandomCrop_get_params(self, flat_inputs)
      [] self.cls = "ElasticTransform" -> ElasticTransform_get_params(self, flat_inputs)
      [] self.cls = "RandomZoomOut" -> RandomZoomOut_get_params(self, flat_inputs)
      [] self.cls = "RandomPerspective" -> RandomPerspective_get_params(self, flat_inputs)
      [] self.cls = "RandomErasing" -> RandomErasing_get_params(self, flat_inputs)
      [] self.cls = "Mixup" -> Mixup_get_params(flat_inputs)
      [] self.cls = "Cutmix" -> Cutmix_get_params(flat_inputs)
      [] self.cls = "RandomIoUCrop" -> RandomIoUCrop_get_params(self, flat_inputs)
      [] OTHER -> {OkNoParams}

Transform_transform(self, inpt, params, newid) ==
    CASE self.cls = "RandomCrop" -> RandomCrop_transform(self, inpt, params, newid)
      [] self.cls = "ElasticTransform" -> ElasticTransform_transform(self, inpt, params, newid)
      [] self.cls = "RandomHorizontalFlip" ->
             RandomHorizontalFlip_transform(self, inpt, params, newid)
      [] self.cls = "RandomVerticalFlip" ->
             RandomVerticalFlip_transform(self, inpt, params, newid)
      [] self.cls = "RandomZoomOut" -> RandomZoomOut_transform(self, inpt, params, newid)
      [] self.cls = "RandomPerspective" -> RandomPerspective_transform(self, inpt, params, newid)
      [] self.cls = "RandomErasing" -> RandomErasing_transform(self, inpt, params, newid)
      [] self.cls = "Resize" -> Resize_transform(self, inpt, params, newid)
      [] self.cls = "Mixup" -> Mixup_transform(inpt, params, newid)
      [] self.cls = "Cutmix" -> Cutmix_transform(inpt, params, newid)
      [] self.cls = "RandomIoUCrop" -> RandomIoUCrop_transform(self, inpt, params, newid)

\* Transform._check_inputs: nothing is asked for unless the class does.
Transform_check_inputs(self, flat_inputs) ==
    IF self.cls = "RandomIoUCrop" THEN RandomIoUCrop_check_inputs(flat_inputs) ELSE "ok"

\* The labels getter: the leaf of the sample that holds the labels (0: none).
labels_getter(sample) == sample.labels

\* The outcomes res of the leaves put together: the new flat outputs, or the
\* first error.
CollectLeaves(flat_inputs, passed, nparams, res) ==
    LET n == Len(flat_inputs)
        bad == {i \in 1..n : res[i].status # "ok"}
    IN  IF bad # {}
        THEN Raised(res[CHOOSE i \in bad : \A j \in bad : i <= j].status, nparams)
        ELSE [status |-> "ok",
              out |-> [i \in 1..n |-> res[i].out],
              nparams |-> nparams,
              passed |-> passed,
              kernels |-> Cardinality({i \in 1..n : res[i].out.id # flat_inputs[i].id})]

\* The flat outputs collected one position late: output i + 1 is leaf i.
ApplyLeaves_shifted(self, flat_inputs, needs, leafparams, nparams) ==
    LET n == Len(flat_inputs)
        at(i) == IF i = 1 THEN n ELSE i - 1
    IN  CollectLeaves([i \in 1..n |-> flat_inputs[at(i)]],
                      [i \in 1..n |-> IF needs[at(i)] THEN leafparams[at(i)] ELSE NoParams],
                      nparams,
                      [i \in 1..n |->
                          IF needs[at(i)]
                          THEN Transform_transform(self, flat_inputs[at(i)], leafparams[at(i)],
                                                   n + i)
                          ELSE [status |-> "ok", out |-> flat_inputs[at(i)]]])

\* The outcome of applying _transform to the leaves that need it, leaf i with
\* the parameters leafparams[i]: the new flat outputs, or the first error.
ApplyLeaves(self, flat_inputs, needs, leafparams, nparams) ==
    LET n == Len(flat_inputs)
    IN  CollectLeaves(flat_inputs,
                      [i \in 1..n |-> IF needs[i] THEN leafparams[i] ELSE NoParams],
                      nparams,
                      [i \in 1..n |->
                          IF needs[i]
                          THEN Transform_transform(self, flat_inputs[i], leafparams[i], n + i)
                          ELSE [status |-> "ok", out |-> flat_inputs[i]]])

\* tree_unflatten(flat_outputs, spec) of a call that did not raise.
Unflattened(r, spec) ==
    IF r.status = "ok" THEN [r EXCEPT !.out = tree_unflatten(r.out, spec)] ELSE r

\* _BaseMixupCutmix.forward drawing the parameters anew for every leaf.
BaseMixupCutmix_forward_resample(self, sample) ==
    LET flat_inputs == tree_flatten(sample)[1]
        n == Len(flat_inputs)
        needs0 == needs_transform_list(transformed_types(self), flat_inputs)
        labels == labels_getter(sample)
        got == Transform_get_params(self, SelectNeeded(flat_inputs, needs0))
    IN  IF has_any(flat_inputs, {"PIL", "BoundingBox", "Mask"}) \/ labels = 0
        THEN {Raised("ValueError", 0)}
        ELSE IF flat_inputs[labels].type \notin TensorTypes
                \/ Len(flat_inputs[labels].shape) # 1
        THEN {Raised("ValueError", 0)}
        ELSE IF \E g \in got : g.status # "ok" THEN {Raised(g.status, 1) : g \in got}
        ELSE {Unflattened(ApplyLeaves(self, flat_inputs, [needs0 EXCEPT ![labels] = TRUE],
                          [i \in 1..n |-> [labels |-> flat_inputs[labels].id,
                                           batch_size |-> flat_inputs[labels].shape[1]]
                                          @@ gs[i]], n),
                          tree_flatten(sample)[2])
              : gs \in [1..n -> got]}

\* _BaseMixupCutmix.forward: the outcomes of one call, one per random draw.
BaseMixupCutmix_forward(self, sample) ==
    LET flat_inputs == tree_flatten(sample)[1]
        spec == tree_flatten(sample)[2]
        n == Len(flat_inputs)
        needs0 == needs_transform_list(transformed_types(self), flat_inputs)
        labels == labels_getter(sample)
        got == Transform_get_params(self, SelectNeeded(flat_inputs, needs0))
    IN  IF has_any(flat_inputs, {"PIL", "BoundingBox", "Mask"}) THEN {Raised("ValueError", 0)}
        ELSE IF labels = 0 \/ flat_inputs[labels].type \notin TensorTypes
        THEN {Raised("ValueError", 0)}
        ELSE IF Len(flat_inputs[labels].shape) # 1 THEN {Raised("ValueError", 0)}
        ELSE {IF g.status # "ok" THEN Raised(g.status, 1)
              ELSE LET params == [labels |-> flat_inputs[labels].id,
                                  batch_size |-> flat_inputs[labels].shape[1]] @@ g
                       needs == [needs0 EXCEPT ![labels] = TRUE]
                   IN  Unflattened(ApplyLeaves(self, flat_inputs, needs,
                                               [i \in 1..n |-> params], 1), spec)
              : g \in got}

\* The call returning its input: nothing computed, nothing applied.
Untouched(sample) ==
    [status |-> "ok", out |-> sample, nparams |-> 0,
     passed |-> [i \in 1..Len(sample.flat) |-> NoParams], kernels |-> 0]

\* Transform.forward: flatten, compute the parameters once from the leaves
\* that need transforming, apply _transform to each of them, unflatten.  A
\* sample with no such leaf is returned unchanged.
Transform_forward(self, sample) ==
    LET flat_inputs == tree_flatten(sample)[1]
        spec == tree_flatten(sample)[2]
        n == Len(flat_inputs)
        needs == needs_transform_list(transformed_types(self), flat_inputs)
        got == Transform_get_params(self, SelectNeeded(flat_inputs, needs))
        checked == Transform_check_inputs(self, flat_inputs)
    IN  IF checked # "ok" THEN {Raised(checked, 0)}
        ELSE IF \A i \in 1..n : ~needs[i] THEN {Untouched(sample)}
        ELSE {IF g.status # "ok" THEN Raised(g.status, 1)
              ELSE Unflattened(ApplyLeaves(self, flat_inputs, needs, [i \in 1..n |-> g], 1),
                               spec)
              : g \in got}

\* _RandomApplyTransform.forward: one uniform draw u / PDen in [0, 1); the
\* input is returned as it is when the draw is not below p.
RandomApply_forward(self, sample) ==
    UNION {IF u >= self.p THEN {Untouched(sample)} ELSE Transform_forward(self, sample)
           : u \in 0..(PDen - 1)}

forward(self, sample) ==
    IF self.cls \in MixupCutmixClasses THEN BaseMixupCutmix_forward(self, sample)
    ELSE IF self.cls \in RandomApplyClasses THEN RandomApply_forward(self, sample)
    ELSE Transform_forward(self, sample)

(***************************************************************************)
(* The samples and the transforms the calls are made with.                 *)
(***************************************************************************)
\* A box of one pixel at the origin, in each format.
UnitBox(format) ==
    IF format = "CXCYWH" THEN <<(<<1, 2>>), (<<1, 2>>), Rat(1), Rat(1)>>
    ELSE <<Rat(0), Rat(0), Rat(1), Rat(1)>>

GeoKinds == {"Image", "Video", "BoundingBox", "Tensor", "PIL", "Object"}
ThinSize == <<1, MaxSide>>

GeoLeaf(kind, id, hw, format) ==
    CASE kind = "Image" -> Leaf("Image", id, <<3, hw[1], hw[2]>>, NoMeta, NoData)
      [] kind = "Video" -> Leaf("Video", id, <<2, 3, hw[1], hw[2]>>, NoMeta, NoData)
      [] kind = "Tensor" -> Leaf("Tensor", id, <<3, hw[1], hw[2]>>, NoMeta, NoData)
      [] kind = "PIL" -> Leaf("PIL", id, <<3, hw[1], hw[2]>>, NoMeta, NoData)
      [] kind = "Mask" -> Leaf("Mask", id, <<hw[1], hw[2]>>, NoMeta, NoData)
      [] kind = "BoundingBox" ->
             Leaf("BoundingBox", id, <<4>>, [format |-> format, canvas |-> hw], UnitBox(format))
      [] kind = "Object" -> Leaf("Object", id, <<>>, NoMeta, NoData)

KindSeqs(kinds) == UNION {[1..n -> kinds] : n \in 1..MaxLeaves}

GeoSizes == {<<MaxSide - 1, MaxSide>>}

\* The leaves share one size, but for the last when `odd`.
GeoSample(ks, hw, odd, format) ==
    [spec |-> Len(ks),
     flat |-> [i \in 1..Len(ks) |->
                  GeoLeaf(ks[i], i, IF odd /\ i = Len(ks) THEN <<hw[2], hw[1] + 1>> ELSE hw,
                          format)],
     labels |-> 0]

GeoSamples ==
    {GeoSample(ks, hw, odd, format) :
        ks \in KindSeqs(GeoKinds), hw \in GeoSizes, odd \in BOOLEAN, format \in {"XYXY"}}
    \cup {GeoSample(ks, hw, FALSE, format) :
            ks \in {<<"BoundingBox">>, <<"Image", "BoundingBox">>, <<"Mask">>,
                    <<"Image", "Mask">>, <<"Video">>},
            hw \in GeoSizes \cup {ThinSize}, format \in Formats}

\* The worked example of the size cap: a 300 x 100 image and its box.
WideSample == GeoSample(<<"Image", "BoundingBox">>, <<300, 100>>, FALSE, "XYXY")

Self(cls, p, size, max_size, padding, pad_if_needed) ==
    [cls |-> cls, p |-> p, size |-> size, max_size |-> max_size, padding |-> padding,
     pad_if_needed |-> pad_if_needed, padding_mode |-> "constant", inplace |-> FALSE]

PlainSelfs ==
    {Self("RandomCrop", PDen, <<s, s>>, NoMaxSize, padding, pad_if_needed) :
        s \in {MaxSide - 1, MaxSide + 1},
        padding \in {<<>>, <<MaxPad, MaxPad, MaxPad, MaxPad>>},
        pad_if_needed \in BOOLEAN}
    \cup {Self("ElasticTransform", PDen, <<>>, NoMaxSize, <<>>, FALSE)}
    \cup {Self("Resize", PDen, size, max_size, <<>>, FALSE) :
            size \in {<<MaxSide - 1>>, <<MaxSide>>, <<MaxSide - 1, MaxSide>>},
            max_size \in {NoMaxSize, <<MaxSide - 1>>, <<MaxSide>>, <<MaxSide + 1>>}}

WideSelf == Self("Resize", PDen, <<100>>, <<150>>, <<>>, FALSE)

RandomApplySelfs ==
    {Self(cls, p, <<>>, NoMaxSize, <<>>, FALSE) : cls \in RandomApplyClasses, p \in 0..PDen}

\* Batched samples for Mixup and Cutmix; `labels` is the leaf the labels
\* getter returns.
MixKinds == {"Images", "Videos", "Labels", "Tensors", "Image", "Labels2d", "BoundingBox", "Object"}

MixLeaf(kind, id, batch, hw) ==
    CASE kind = "Images" -> Leaf("Image", id, <<batch, 3, hw[1], hw[2]>>, NoMeta, NoData)
      [] kind = "Videos" -> Leaf("Video", id, <<batch, 2, 3, hw[1], hw[2]>>, NoMeta, NoData)
      [] kind = "Tensors" -> Leaf("Tensor", id, <<batch, 3, hw[1], hw[2]>>, NoMeta, NoData)
      [] kind = "Labels" -> Leaf("Tensor", id, <<batch>>, NoMeta, NoData)
      [] kind = "Labels2d" -> Leaf("Tensor", id, <<batch, NumCategories>>, NoMeta, NoData)
      [] kind = "Image" -> Leaf("Image", id, <<3, hw[1], hw[2]>>, NoMeta, NoData)
      [] kind = "BoundingBox" ->
             Leaf("BoundingBox", id, <<4>>, [format |-> "XYXY", canvas |-> hw], UnitBox("XYXY"))
      [] kind = "Object" -> Leaf("Object", id, <<>>, NoMeta, NoData)

MixSamples ==
    {[spec |-> Len(ks),
      flat |-> [i \in 1..Len(ks) |-> MixLeaf(ks[i], i, batch, <<MaxSide - 1, MaxSide>>)],
      labels |-> labels] :
        ks \in KindSeqs(MixKinds), batch \in 1..MaxBatch, labels \in 0..MaxLeaves}

MixupCutmixSelfs ==
    {Self(cls, PDen, <<>>, NoMaxSize, <<>>, FALSE) : cls \in MixupCutmixClasses}

(***************************************************************************)
(* Transform calls: a call is made with a transform and a sample and       *)
(* returns (or raises) before the next one is made.                        *)
(***************************************************************************)
\* No call is in flight: calls are made one after another.
Idle ==
    /\ tcall = NoCall /\ dcall = NoCall /\ qcall = NoCall /\ ncall = NoCall
    /\ fcall = NoCall

CallTransform ==
    /\ Idle
    /\ \E self \in PlainSelfs \cup {WideSelf} :
       \E sample \in (IF self = WideSelf THEN {WideSample} ELSE GeoSamples) :
       \E r \in Transform_forward(self, sample) :
          /\ tcall' = [self |-> self, sample |-> sample]
          /\ tresult' = r
    /\ UNCHANGED <<dvars, qvars, nvars, fvars>>

CallRandomApply ==
    /\ Idle
    /\ \E self \in RandomApplySelfs, sample \in GeoSamples :
       \E r \in RandomApply_forward(self, sample) :
          /\ tcall' = [self |-> self, sample |-> sample]
          /\ tresult' = r
    /\ UNCHANGED <<dvars, qvars, nvars, fvars>>

CallMixupCutmix ==
    /\ Idle
    /\ \E self \in MixupCutmixSelfs :
       \E sample \in {s \in MixSamples : s.labels <= Len(s.flat)} :
       \E r \in BaseMixupCutmix_forward(self, sample) :
          /\ tcall' = [self |-> self, sample |-> sample]
          /\ tresult' = r
    /\ UNCHANGED <<dvars, qvars, nvars, fvars>>

ReturnTransform ==
    /\ tcall # NoCall
    /\ tcall' = NoCall
    /\ tresult' = NoResult
    /\ UNCHANGED <<dvars, qvars, nvars, fvars>>


(***************************************************************************)
(* Properties of the transform calls.                                      *)
(***************************************************************************)
Returned == tcall # NoCall
ReturnedOk == tcall # NoCall /\ tresult.status = "ok"

\* The leaves the transform of the call in flight touches.
NeedsOf(call) ==
    LET needs == needs_transform_list(transformed_types(call.self), call.sample.flat)
    IN  IF call.self.cls \in MixupCutmixClasses /\ call.sample.labels # 0
        THEN [needs EXCEPT ![call.sample.labels] = TRUE]
        ELSE needs

Transformed(i) == tresult.passed[i] # NoParams

\* C1: _get_params runs at most once in a call and exactly once in every
\* call that transforms a leaf; every transformed leaf receives that one
\* parameter set, so the leaves a same kernel produced were produced with
\* the same arguments (the crop window of RandomCrop, the displacement of
\* ElasticTransform, lam of Mixup, box and lam_adjusted of Cutmix).
C1_ParamsComputedOnceAndShared ==
    Returned =>
        /\ tresult.nparams <= 1
        /\ tresult.status = "ok" =>
              LET n == Len(tresult.passed)
                  out == tresult.out.flat
              IN  /\ (\E i \in 1..n : Transformed(i)) => tresult.nparams = 1
                  /\ \A i, j \in 1..n :
                        Transformed(i) /\ Transformed(j) =>
                           /\ tresult.passed[i] = tresult.passed[j]
                           /\ (/\ out[i].ops # <<>> /\ out[j].ops # <<>>
                               /\ out[i].type = "BoundingBox" <=> out[j].type = "BoundingBox"
                               /\ i # tcall.sample.labels
                               /\ j # tcall.sample.labels)
                              => out[i].ops = out[j].ops

\* A Cutmix call that replaced the images and the labels.
C1_Witness ==
    /\ ReturnedOk
    /\ tcall.self.cls = "Cutmix"
    /\ Len(tresult.passed) = 2
    /\ \A i \in 1..2 : Transformed(i) /\ tresult.out.flat[i].ops # <<>>
    /\ tresult.passed[1].box[3] > tresult.passed[1].box[1]

\* C2: a randomized-apply transform with p = 0 returns its input as it is,
\* without computing parameters or calling a kernel; with p = 1 it computes
\* the parameters and applies _transform to every leaf it touches (a kernel
\* call, but for RandomErasing when no window was found).
C2_SkipNeverOrAlways ==
    (Returned /\ tcall.self.cls \in RandomApplyClasses) =>
        /\ tcall.self.p = 0 =>
              /\ tresult.status = "ok"
              /\ tresult.out = tcall.sample
              /\ tresult.nparams = 0
              /\ tresult.kernels = 0
              /\ \A i \in 1..Len(tresult.passed) : ~Transformed(i)
        /\ (tcall.self.p = PDen /\ \E i \in 1..Len(tcall.sample.flat) : NeedsOf(tcall)[i]) =>
              /\ tresult.nparams = 1
              /\ tresult.status = "ok" =>
                    \A i \in 1..Len(tcall.sample.flat) :
                       NeedsOf(tcall)[i] =>
                          /\ Transformed(i)
                          /\ IF tcall.self.cls = "RandomErasing" /\ tresult.passed[i].v_is_none
                             THEN tresult.out.flat[i] = tcall.sample.flat[i]
                             ELSE /\ tresult.out.flat[i].id # tcall.sample.flat[i].id
                                  /\ Len(tresult.out.flat[i].ops) = 1

\* A horizontal flip with p = 1 that flipped two leaves.
C2_Witness ==
    /\ ReturnedOk
    /\ tcall.self.cls = "RandomHorizontalFlip"
    /\ tcall.self.p = PDen
    /\ tresult.kernels = 2
    /\ tresult.nparams = 1

\* C3: the sample returned has the nesting and the leaf order of the input;
\* a leaf the transform does not touch is the identical object; Mixup and
\* Cutmix replace only images, videos, plain tensors and the labels.
C3_StructureAndPassThrough ==
    ReturnedOk =>
        LET inp == tcall.sample.flat
            out == tresult.out.flat
        IN  /\ tresult.out.spec = tcall.sample.spec
            /\ Len(out) = Len(inp)
            /\ \A i \in 1..Len(inp) :
                  /\ out[i].src = inp[i].id
                  /\ (~NeedsOf(tcall)[i]) => out[i] = inp[i]
                  /\ (inp[i].type \notin transformed_types(tcall.self)) => out[i] = inp[i]
                  /\ (tcall.self.cls \in MixupCutmixClasses /\ out[i] # inp[i]) =>
                        \/ i = tcall.sample.labels
                        \/ inp[i].type \in {"Image", "Video", "Tensor"}

\* A Mixup call that replaced a leaf and passed an object through.
C3_Witness ==
    /\ ReturnedOk
    /\ tcall.self.cls = "Mixup"
    /\ \E i, j \in 1..Len(tcall.sample.flat) :
          /\ tcall.sample.flat[i].type = "Object"
          /\ tresult.out.flat[i] = tcall.sample.flat[i]
          /\ tresult.out.flat[j].id # tcall.sample.flat[j].id

(***************************************************************************)
(* Dispatchers.  A dispatcher looks the kernel up by the exact runtime     *)
(* type of its input.  The registries are those of                         *)
(* prototype/transforms/functional/_geometry.py (the PIL kernel under      *)
(* "PIL") and of transforms/v2/functional/_misc.py (the plain-tensor       *)
(* kernel under "Tensor").                                                 *)
(***************************************************************************)
PrototypeOps == {"horizontal_flip", "resize", "center_crop", "resized_crop", "affine", "rotate"}
V2Ops == {"normalize", "gaussian_blur", "to_dtype"}
Ops == PrototypeOps \cup V2Ops

\* The same registries with the image kernels standing in for every feature.
Registry_inherit(op) ==
    LET image == CASE op = "horizontal_flip" -> "horizontal_flip_image"
                   [] op = "resize" -> "resize_image"
                   [] op = "center_crop" -> "center_crop_image"
                   [] op = "resized_crop" -> "resized_crop_image"
                   [] op = "affine" -> "affine_image"
                   [] op = "rotate" -> "rotate_image"
                   [] op = "normalize" -> "normalize_image_tensor"
                   [] op = "gaussian_blur" -> "gaussian_blur_image_tensor"
                   [] op = "to_dtype" -> "to_dtype_image_tensor"
    IN  [t \in FeatureTypes |-> image]

Registry(op) ==
    CASE op = "horizontal_flip" ->
             [Image |-> "horizontal_flip_image",
              BoundingBox |-> "_horizontal_flip_bounding_box",
              PIL |-> "hflip"]
      [] op = "resize" ->
             [Image |-> "resize_image",
              Mask |-> "resize_segmentation_mask",
              BoundingBox |-> "_resize_bounding_box",
              PIL |-> "resize"]
      [] op = "center_crop" -> [Image |-> "center_crop_image"]
      [] op = "resized_crop" -> [Image |-> "resized_crop_image"]
      [] op = "affine" -> [Image |-> "affine_image"]
      [] op = "rotate" -> [Image |-> "rotate_image"]
      [] op = "normalize" ->
             [Tensor |-> "normalize_image_tensor",
              Image |-> "normalize_image_tensor",
              Video |-> "normalize_video"]
      [] op = "gaussian_blur" ->
             [Tensor |-> "gaussian_blur_image_tensor",
              Image |-> "gaussian_blur_image_tensor",
              PIL |-> "_gaussian_blur_image_pil",
              Video |-> "gaussian_blur_video"]
      [] op = "to_dtype" ->
             [Tensor |-> "to_dtype_image_tensor",
              Image |-> "to_dtype_image_tensor",
              Video |-> "to_dtype_video",
              BoundingBox |-> "_to_dtype_tensor_dispatch",
              Mask |-> "_to_dtype_tensor_dispatch"]

\* Feature.new_like without the copy of the other's metadata.
new_like_nocopy(cls, other, data, metadata) ==
    [data EXCEPT !.type = cls,
                 !.meta = [k \in DOMAIN NoMeta |->
                              IF k \in DOMAIN metadata THEN metadata[k] ELSE NoMeta[k]]]

\* Feature.new_like: a cls around data with the metadata of other, updated
\* with the metadata given.
new_like(cls, other, data, metadata) ==
    LET copied == other.meta
    IN  [data EXCEPT !.type = cls,
                     !.meta = [k \in DOMAIN copied |->
                                  IF k \in DOMAIN metadata THEN metadata[k] ELSE copied[k]]]

NoMetadata == [none |-> TRUE]

\* The kernels K return plain tensors.
PlainOutput(inpt, kernel, args, newid, data) ==
    [KernelOutput(inpt, kernel, args, newid) EXCEPT
        !.type = "Tensor", !.meta = NoMeta, !.data = data]

K_horizontal_flip_bounding_box(input, format, image_size, newid) ==
    PlainOutput(input, "horizontal_flip_bounding_box", NoParams, newid,
                horizontal_flip_bounding_box(input.data, format, image_size[2]))

\* The boxes follow the image: for a single edge length the size the image
\* gets is computed from the old size.
K_resize_bounding_box(input, old_image_size, new_image_size, newid) ==
    LET new == IF Len(new_image_size) = 2 THEN new_image_size
               ELSE compute_resized_output_size(old_image_size, new_image_size, NoMaxSize).hw
    IN  PlainOutput(input, "resize_bounding_box", [size |-> new_image_size], newid,
                    resize_bounding_box(input.data, old_image_size, new))

\* _horizontal_flip_bounding_box taking every box for an XYXY one.
_horizontal_flip_bounding_box_xyxy(input, newid) ==
    K_horizontal_flip_bounding_box(input, "XYXY", input.meta.canvas, newid)

_horizontal_flip_bounding_box(input, newid) ==
    K_horizontal_flip_bounding_box(input, input.meta.format, input.meta.canvas, newid)

_resize_bounding_box(input, size, newid) ==
    LET output == K_resize_bounding_box(input, input.meta.canvas, size, newid)
    IN  new_like("BoundingBox", input, output, [canvas |-> size])

\* What the kernel computes on inpt, still carrying the class of inpt.
KernelResult(kernel, inpt, kwargs, newid) ==
    CASE kernel \in {"resize_image", "resize_segmentation_mask", "resize", "resized_crop_image"} ->
             LET new == compute_resized_output_size(spatial_size(inpt), kwargs.size, NoMaxSize).hw
             IN  [KernelOutput(inpt, kernel, kwargs, newid) EXCEPT
                     !.shape = SetHW(@, new[1], new[2])]
      [] kernel = "center_crop_image" ->
             [KernelOutput(inpt, kernel, kwargs, newid) EXCEPT
                 !.shape = SetHW(@, kwargs.size[1], kwargs.size[Len(kwargs.size)])]
      [] kernel \in {"horizontal_flip_image", "hflip"} ->
             [KernelOutput(inpt, kernel, kwargs, newid) EXCEPT !.data = flip_pixels_w(@)]
      [] OTHER -> KernelOutput(inpt, kernel, kwargs, newid)

\* The kernel `kernel` run on inpt.  The tensor kernels return plain tensors,
\* the PIL kernels PIL images; _resize_bounding_box wraps its result itself
\* and _to_dtype_tensor_dispatch returns inpt.to(dtype), of the class of inpt.
RunKernel(kernel, inpt, kwargs, newid) ==
    CASE kernel = "_horizontal_flip_bounding_box" -> _horizontal_flip_bounding_box(inpt, newid)
      [] kernel = "_resize_bounding_box" -> _resize_bounding_box(inpt, kwargs.size, newid)
      [] kernel = "_to_dtype_tensor_dispatch" -> KernelResult(kernel, inpt, kwargs, newid)
      [] OTHER ->
             IF inpt.type = "PIL" THEN KernelResult(kernel, inpt, kwargs, newid)
             ELSE [KernelResult(kernel, inpt, kwargs, newid) EXCEPT
                      !.type = "Tensor", !.meta = NoMeta]

\* tv_tensors.wrap without the conversion to the class of like.
wrap_plain(wrappee, like, kwargs) == wrappee

\* tv_tensors.wrap: wrappee as the class of like; for bounding boxes with the
\* format and canvas size of like unless given in kwargs, which are ignored
\* for every other class.
wrap(wrappee, like, kwargs) ==
    IF like.type = "BoundingBox"
    THEN [wrappee EXCEPT
             !.type = "BoundingBox",
             !.meta = [format |-> IF "format" \in DOMAIN kwargs
                                  THEN kwargs.format ELSE like.meta.format,
                       canvas |-> IF "canvas" \in DOMAIN kwargs
                                  THEN kwargs.canvas ELSE like.meta.canvas]]
    ELSE [wrappee EXCEPT !.type = like.type, !.meta = NoMeta]

\* input.as_subclass(torch.Tensor): the same data as a plain tensor.
as_subclass_tensor(inpt) == [inpt EXCEPT !.type = "Tensor", !.meta = NoMeta]

\* The types registered with datapoint_wrapper=False.
NoDatapointWrapper(op) == IF op = "to_dtype" THEN {"BoundingBox", "Mask"} ELSE {}

\* _get_kernel(dispatcher, type(inpt)) and the call of the kernel found: a
\* kernel registered for a datapoint class gets the plain tensor and its
\* result is wrapped like the input, unless registered without the wrapper.
v2_dispatch(op, inpt, kwargs, newid) ==
    IF inpt.type \in DOMAIN Registry(op)
    THEN LET kernel == Registry(op)[inpt.type]
             wrapped == inpt.type \in FeatureTypes /\ inpt.type \notin NoDatapointWrapper(op)
         IN  [status |-> "ok",
              out |-> IF wrapped
                      THEN wrap(RunKernel(kernel, as_subclass_tensor(inpt), kwargs, newid),
                                inpt, NoMetadata)
                      ELSE RunKernel(kernel, inpt, kwargs, newid),
              kernel |-> kernel,
              named |-> "none"]
    ELSE [status |-> "TypeError", out |-> NoLeaf, kernel |-> "none", named |-> inpt.type]

\* A dispatcher call: the kernel registered for the exact type of the input
\* runs; a plain tensor a kernel returns for a feature is wrapped like the
\* input; without a kernel the call raises, naming the type.
dispatch(op, inpt, kwargs, newid) ==
    IF op \in V2Ops THEN v2_dispatch(op, inpt, kwargs, newid)
    ELSE IF inpt.type \in DOMAIN Registry(op)
    THEN LET kernel == Registry(op)[inpt.type]
             output == RunKernel(kernel, inpt, kwargs, newid)
         IN  [status |-> "ok",
              out |-> IF inpt.type \in FeatureTypes /\ output.type = "Tensor"
                      THEN new_like(inpt.type, inpt, output, NoMetadata)
                      ELSE output,
              kernel |-> kernel,
              named |-> "none"]
    ELSE [status |-> "TypeError", out |-> NoLeaf, kernel |-> "none", named |-> inpt.type]

(***************************************************************************)
(* Dispatcher calls.                                                       *)
(***************************************************************************)
BoxesXYXY ==
    {b \in (0..MaxCoord) \X (0..MaxCoord) \X (0..MaxCoord) \X (0..MaxCoord) :
        b[1] < b[3] /\ b[2] < b[4]}

\* The box with corners (x1, y1), (x2, y2) written in a format.
InFormat(b, format) ==
    CASE format = "XYXY" -> <<Rat(b[1]), Rat(b[2]), Rat(b[3]), Rat(b[4])>>
      [] format = "XYWH" -> <<Rat(b[1]), Rat(b[2]), Rat(b[3] - b[1]), Rat(b[4] - b[2])>>
      [] format = "CXCYWH" ->
             <<(<<b[1] + b[3], 2>>), (<<b[2] + b[4], 2>>), Rat(b[3] - b[1]), Rat(b[4] - b[2])>>

DispatchCanvases == GeoSizes \cup {ThinSize, <<MaxSide + 1, MaxSide - 1>>}

DispatchInputs ==
    {GeoLeaf(kind, 1, hw, "XYXY") :
        kind \in {"Image", "Video", "Mask", "Tensor", "PIL", "Object"}, hw \in DispatchCanvases}
    \cup {Leaf("BoundingBox", 1, <<4>>, [format |-> format, canvas |-> hw], InFormat(b, format)) :
            format \in Formats, hw \in DispatchCanvases, b \in BoxesXYXY}

\* size: one edge length or (H, W).
DispatchSizes == {<<1>>, <<MaxSide - 1>>, <<MaxSide>>, <<1, 1>>, <<MaxSide - 1, MaxSide>>}

CallDispatch ==
    /\ Idle
    /\ \E op \in Ops, inpt \in DispatchInputs, size \in DispatchSizes :
          /\ dcall' = [op |-> op, input |-> inpt, kwargs |-> [size |-> size]]
          /\ dresult' = dispatch(op, inpt, [size |-> size], 2)
    /\ UNCHANGED <<tvars, qvars, nvars, fvars>>

ReturnDispatch ==
    /\ dcall # NoCall
    /\ dcall' = NoCall
    /\ dresult' = NoResult
    /\ UNCHANGED <<tvars, qvars, nvars, fvars>>

(***************************************************************************)
(* Queries over a flattened sample.                                        *)
(***************************************************************************)
QueryLeaves ==
    {Leaf("Image", 0, <<3, MaxSide - 1, MaxSide>>, NoMeta, NoData),
     Leaf("Image", 0, <<3, MaxSide, MaxSide>>, NoMeta, NoData),
     Leaf("Image", 0, <<1, MaxSide - 1, MaxSide>>, NoMeta, NoData),
     Leaf("PIL", 0, <<3, MaxSide - 1, MaxSide>>, NoMeta, NoData),
     Leaf("Tensor", 0, <<3, MaxSide, MaxSide>>, NoMeta, NoData),
     Leaf("BoundingBox", 0, <<4>>, [format |-> "XYXY", canvas |-> <<MaxSide, MaxSide>>],
          UnitBox("XYXY")),
     Leaf("Object", 0, <<>>, NoMeta, NoData)}

QuerySamples ==
    UNION {{[i \in 1..n |-> [ls[i] EXCEPT !.id = i, !.src = i]] : ls \in [1..n -> QueryLeaves]}
           : n \in 1..(MaxLeaves + 1)}

CallQueryChw ==
    /\ Idle
    /\ \E flat_sample \in QuerySamples, get_chw_bound \in BOOLEAN :
          LET q == query_chw(flat_sample, get_chw_bound)
          IN  /\ qcall' = [flat_sample |-> flat_sample, get_chw_bound |-> get_chw_bound]
              /\ \/ q.status # "ok" /\ qresult' = [status |-> q.status, value |-> <<>>]
                 \/ q.status = "ok" /\ \E chw \in q.values :
                                          qresult' = [status |-> "ok", value |-> chw]
    /\ UNCHANGED <<tvars, dvars, nvars, fvars>>

ReturnQuery ==
    /\ qcall # NoCall
    /\ qcall' = NoCall
    /\ qresult' = NoResult
    /\ UNCHANGED <<tvars, dvars, nvars, fvars>>

(***************************************************************************)
(* normalize (transforms/v2/functional/_misc.py).  A tensor lives in the   *)
(* heap under its id: dtype, number of dimensions, one value per channel   *)
(* (a rational) and the version counter its in-place operations bump.      *)
(***************************************************************************)
MaxPixel == 2
MaxMean == 1
MaxStd == 2
Channels == 1..2

Tensor(dtype, ndim, data) == [dtype |-> dtype, ndim |-> ndim, data |-> data, version |-> 0]

\* The mean along the leading dimension instead of the channels.
RECURSIVE sub_values_leading(_, _, _)
sub_values_leading(data, ndim, mean) ==
    IF ndim <= 3 THEN [c \in 1..Len(mean) |-> RatAddInt(data[c], -mean[c])]
    ELSE [b \in 1..Len(data) |->
             sub_values_leading(data[b], ndim - 1,
                                [c \in 1..Len(mean) |-> mean[((b - 1) % Len(mean)) + 1]])]

\* mean.view(-1, 1, 1) broadcast against (..., C, H, W): channel c meets
\* mean[c] under every index of the leading dimensions.  The values of a
\* tensor of more than three dimensions are a sequence along its first one.
RECURSIVE sub_values(_, _, _)
sub_values(data, ndim, mean) ==
    IF ndim <= 3 THEN [c \in 1..Len(mean) |-> RatAddInt(data[c], -mean[c])]
    ELSE [b \in 1..Len(data) |-> sub_values(data[b], ndim - 1, mean)]

RECURSIVE div_values(_, _, _)
div_values(data, ndim, std) ==
    IF ndim <= 3 THEN [c \in 1..Len(std) |-> <<data[c][1], data[c][2] * std[c]>>]
    ELSE [b \in 1..Len(data) |-> div_values(data[b], ndim - 1, std)]

\* image.sub(mean): a new tensor.
sub(h, image, mean, newid) ==
    (newid :> Tensor(h[image].dtype, h[image].ndim,
                     sub_values(h[image].data, h[image].ndim, mean))) @@ h

\* image.sub_(mean): the tensor itself changes.
sub_(h, image, mean) ==
    [h EXCEPT ![image].data = sub_values(@, h[image].ndim, mean),
              ![image].version = @ + 1]

\* image.div_(std)
div_(h, image, std) ==
    [h EXCEPT ![image].data = div_values(@, h[image].ndim, std),
              ![image].version = @ + 1]

\* normalize_image_tensor subtracting in place whatever the flag.
normalize_image_tensor_inplace(h, image, mean, std, inplace, newid) ==
    IF h[image].dtype # "float" THEN [status |-> "TypeError", out |-> 0, heap |-> h]
    ELSE IF h[image].ndim < 3 THEN [status |-> "ValueError", out |-> 0, heap |-> h]
    ELSE IF \E c \in 1..Len(std) : std[c] = 0
    THEN [status |-> "ValueError", out |-> 0, heap |-> h]
    ELSE [status |-> "ok", out |-> image, heap |-> div_(sub_(h, image, mean), image, std)]

\* normalize_image_tensor: [status, out, heap], out the id of the tensor
\* returned, heap the heap after the call.
normalize_image_tensor(h, image, mean, std, inplace, newid) ==
    IF h[image].dtype # "float" THEN [status |-> "TypeError", out |-> 0, heap |-> h]
    ELSE IF h[image].ndim < 3 THEN [status |-> "ValueError", out |-> 0, heap |-> h]
    ELSE IF \E c \in 1..Len(std) : std[c] = 0
    THEN [status |-> "ValueError", out |-> 0, heap |-> h]
    ELSE IF inplace
    THEN [status |-> "ok", out |-> image, heap |-> div_(sub_(h, image, mean), image, std)]
    ELSE [status |-> "ok", out |-> newid, heap |-> div_(sub(h, image, mean, newid), newid, std)]

NormalizeInputs ==
    {Tensor(dtype, ndim, [c \in Channels |-> Rat(px[c])]) :
        dtype \in {"float", "uint8"}, ndim \in 2..3, px \in [Channels -> 0..MaxPixel]}

CallNormalize ==
    /\ Idle
    /\ \E image \in NormalizeInputs, inplace \in BOOLEAN :
       \E mean \in [Channels -> 0..MaxMean], std \in [Channels -> 0..MaxStd] :
          LET r == normalize_image_tensor((1 :> image), 1, mean, std, inplace, 2)
          IN  /\ ncall' = [input |-> 1, before |-> image, mean |-> mean, std |-> std,
                           inplace |-> inplace]
              /\ nresult' = [status |-> r.status, out |-> r.out]
              /\ heap' = r.heap
    /\ UNCHANGED <<tvars, dvars, qvars, fvars>>

ReturnNormalize ==
    /\ ncall # NoCall
    /\ ncall' = NoCall
    /\ nresult' = NoResult
    /\ heap' = <<>>
    /\ UNCHANGED <<tvars, dvars, qvars, fvars>>

(***************************************************************************)
(* Kernels on batches: gaussian_blur_image_tensor and the comparisons of   *)
(* _check_kernel_batched_vs_single and _test_fn_on_batch.                  *)
(***************************************************************************)
BatchDims == {<<4>>, <<2, 3>>}

\* single_input.repeat([*batch_dims, 1, ..., 1]): x under every batch index.
RECURSIVE repeat(_, _)
repeat(data, batch_dims) ==
    IF batch_dims = <<>> THEN data
    ELSE [b \in 1..Head(batch_dims) |-> repeat(data, Tail(batch_dims))]

\* batch[ix]
RECURSIVE select(_, _)
select(data, ix) == IF ix = <<>> THEN data ELSE select(data[Head(ix)], Tail(ix))

Indices(batch_dims) ==
    IF Len(batch_dims) = 1 THEN {<<i>> : i \in 1..batch_dims[1]}
    ELSE {<<i, j>> : i \in 1..batch_dims[1], j \in 1..batch_dims[2]}

\* shape[:-3] of a tensor with values in every batch dimension.
RECURSIVE batch_shape(_, _)
batch_shape(data, ndim) ==
    IF ndim <= 3 THEN <<>> ELSE <<Len(data)>> \o batch_shape(data[1], ndim - 1)

\* image.reshape((-1,) + shape[-3:]): the samples in row-major order.
RECURSIVE flatten_batch(_, _)
flatten_batch(data, ndim) ==
    IF ndim <= 4 THEN data
    ELSE IF data = <<>> THEN <<>>
    ELSE flatten_batch(Head(data), ndim - 1) \o flatten_batch(Tail(data), ndim)

\* output.reshape(shape)
RECURSIVE reshape_batch(_, _)
reshape_batch(flat, batch_dims) ==
    IF Len(batch_dims) <= 1 THEN flat
    ELSE LET row == Len(flat) \div Head(batch_dims)
         IN  [b \in 1..Head(batch_dims) |->
                 reshape_batch(SubSeq(flat, (b - 1) * row + 1, b * row), Tail(batch_dims))]

\* conv2d(output, kernel, groups=C) of an (N, C, H, W) input: sample by sample.
conv2d(batch, kernel_size) ==
    [k \in 1..Len(batch) |-> [conv2d |-> kernel_size, of |-> batch[k]]]

\* gaussian_blur_image_tensor with sigma=None: [status, out], out the tensor
\* returned.
gaussian_blur_image_tensor(image, kernel_size) ==
    IF Len(kernel_size) # 2 THEN [status |-> "ValueError", out |-> image]
    ELSE IF \E i \in 1..2 : kernel_size[i] % 2 = 0 \/ kernel_size[i] < 0
    THEN [status |-> "ValueError", out |-> image]
    ELSE IF image.ndim > 3 /\ image.data = <<>> THEN [status |-> "ok", out |-> image]
    ELSE LET ndim == image.ndim
             shape == batch_shape(image.data, ndim)
             input == IF ndim = 3 THEN <<image.data>>
                      ELSE IF ndim > 4 THEN flatten_batch(image.data, ndim)
                      ELSE image.data
             output == conv2d(input, kernel_size)
         IN  [status |-> "ok",
              out |-> Tensor(image.dtype, ndim,
                             IF ndim = 3 THEN output[1]
                             ELSE IF ndim > 4 THEN reshape_batch(output, shape)
                             ELSE output)]

BatchKernels == {"normalize_image_tensor", "gaussian_blur_image_tensor"}

BatchSamples == [Channels -> {Rat(v) : v \in 0..MaxPixel}]

BatchKwargs ==
    [mean : [Channels -> 0..MaxMean], std : [Channels -> 0..MaxStd], kernel_size : {<<3, 3>>}]
    \cup [mean : {[c \in Channels |-> 0]}, std : {[c \in Channels |-> 1]},
          kernel_size : {<<3>>, <<2, 3>>, <<1, 3>>}]

\* kernel(input, **kwargs): [status, out], out the values of the result.
ApplyBatchKernel(kernel, input, kwargs) ==
    IF kernel = "normalize_image_tensor"
    THEN LET r == normalize_image_tensor((1 :> input), 1, kwargs.mean, kwargs.std, FALSE, 2)
         IN  [status |-> r.status,
              out |-> IF r.status = "ok" THEN r.heap[r.out].data ELSE <<>>]
    ELSE LET r == gaussian_blur_image_tensor(input, kwargs.kernel_size)
         IN  [status |-> r.status, out |-> IF r.status = "ok" THEN r.out.data ELSE <<>>]

\* _check_kernel_batched_vs_single: the kernel on N stacked copies of the
\* input and on the input itself.
CheckKernelBatchedVsSingle ==
    /\ Idle
    /\ \E kernel \in BatchKernels, x \in BatchSamples, batch_dims \in BatchDims,
          kwargs \in BatchKwargs :
          LET actual == ApplyBatchKernel(
                            kernel,
                            Tensor("float", 3 + Len(batch_dims), repeat(x, batch_dims)),
                            kwargs)
              expected == ApplyBatchKernel(kernel, Tensor("float", 3, x), kwargs)
          IN  /\ fcall' = [fn |-> "_check_kernel_batched_vs_single", kernel |-> kernel,
                           batch |-> repeat(x, batch_dims), batch_dims |-> batch_dims,
                           kwargs |-> kwargs]
              /\ fresult' = [status |-> actual.status, actual |-> actual.out,
                             expected |-> [ix \in Indices(batch_dims) |-> expected]]
    /\ UNCHANGED <<tvars, dvars, qvars, nvars>>

\* _test_fn_on_batch: the kernel on a batch of two samples and on each of
\* them.
TestFnOnBatch ==
    /\ Idle
    /\ \E kernel \in BatchKernels, x \in BatchSamples, y \in BatchSamples,
          kwargs \in BatchKwargs :
          LET batch_tensors == <<x, y>>
              transformed_batch == ApplyBatchKernel(kernel, Tensor("float", 4, batch_tensors),
                                                    kwargs)
          IN  /\ fcall' = [fn |-> "_test_fn_on_batch", kernel |-> kernel,
                           batch |-> batch_tensors, batch_dims |-> <<2>>,
                           kwargs |-> kwargs]
              /\ fresult' = [status |-> transformed_batch.status,
                             actual |-> transformed_batch.out,
                             expected |-> [ix \in Indices(<<2>>) |->
                                              ApplyBatchKernel(
                                                  kernel,
                                                  Tensor("float", 3, batch_tensors[ix[1]]),
                                                  kwargs)]]
    /\ UNCHANGED <<tvars, dvars, qvars, nvars>>

(***************************************************************************)
(* Calls of the functionals: flips, pad and crop.                          *)
(***************************************************************************)
\* Images and masks with their pixels, and bounding boxes in every format.
PixelInputs ==
    {[GeoLeaf(kind, 1, hw, "XYXY") EXCEPT !.data = Pixels(hw)] :
        kind \in {"Image", "Mask"}, hw \in GeoSizes \cup {ThinSize}}

BoxInputs == {inpt \in DispatchInputs : inpt.type = "BoundingBox"}

Flips == {"horizontal_flip", "F.horizontal_flip", "F.vertical_flip"}

\* One flip: the prototype dispatcher or a v2 functional.
Flip(flip, inpt, newid) ==
    IF flip = "horizontal_flip" THEN dispatch("horizontal_flip", inpt, NoParams, newid)
    ELSE [status |-> "ok",
          out |-> IF flip = "F.horizontal_flip" THEN F_horizontal_flip(inpt, newid)
                  ELSE F_vertical_flip(inpt, newid)]

\* flip(flip(inpt))
FlipTwice ==
    /\ Idle
    /\ \E flip \in Flips, inpt \in PixelInputs \cup BoxInputs :
          LET once == Flip(flip, inpt, 2)
              twice == IF once.status = "ok" THEN Flip(flip, once.out, 3) ELSE once
          IN  /\ fcall' = [fn |-> "flip_twice", flip |-> flip, input |-> inpt]
              /\ fresult' = [status |-> twice.status, once |-> once.out, out |-> twice.out]
    /\ UNCHANGED <<tvars, dvars, qvars, nvars>>

\* crop(pad(x, [p, p, p, p]), top=p, left=p, height=H, width=W), by the
\* functionals themselves or as RandomCrop._transform applies them with the
\* parameters of a RandomCrop(size=(H, W), padding=p) that drew top = left = p.
PadThenCrop ==
    /\ Idle
    /\ \E x \in PixelInputs \cup BoxInputs, p \in 0..MaxPad, via \in {"F", "RandomCrop"} :
          LET hw == spatial_size(x)
              padding == <<p, p, p, p>>
              self == Self("RandomCrop", PDen, hw, NoMaxSize, padding, FALSE)
              params == [needs_pad |-> \E k \in 1..4 : padding[k] # 0, padding |-> padding,
                         needs_crop |-> p > 0, top |-> p, left |-> p,
                         height |-> hw[1], width |-> hw[2]]
              out == IF via = "F"
                     THEN F_crop(F_pad(x, padding, "constant", 2), p, p, hw[1], hw[2], 3)
                     ELSE RandomCrop_transform(self, x, params, 2).out
          IN  /\ fcall' = [fn |-> "pad_then_crop", via |-> via, input |-> x, p |-> p]
              /\ fresult' = [status |-> "ok", out |-> out]
    /\ UNCHANGED <<tvars, dvars, qvars, nvars>>

\* RandomCrop.__init__ keeping the padding in the order (left, top, right,
\* bottom).
RandomCrop_init_ltrb(size, padding, pad_if_needed) ==
    LET parsed == parse_pad_padding(padding)
    IN  Self("RandomCrop", PDen, size, NoMaxSize,
             IF padding # <<>> THEN <<parsed[1], parsed[3], parsed[2], parsed[4]>> ELSE <<>>,
             pad_if_needed)

\* RandomCrop.__init__: self.padding is the parsed padding, (left, right,
\* top, bottom), or None (<<>>).
RandomCrop_init(size, padding, pad_if_needed) ==
    Self("RandomCrop", PDen, size, NoMaxSize,
         IF padding # <<>> THEN parse_pad_padding(padding) ELSE <<>>,
         pad_if_needed)

\* pad(x, padding), and RandomCrop(size, padding=padding)(x) for the size of
\* the padded input, which pads and crops nothing away.  The padding
\* arguments have one value, two values or four values.
CallPad ==
    /\ Idle
    /\ LET PadArgs == {<<v>> : v \in 0..MaxPad}
                      \cup ((0..MaxPad) \X (0..MaxPad))
                      \cup ((0..MaxPad) \X (0..MaxPad) \X (0..MaxPad) \X (0..MaxPad))
           PadInputs == PixelInputs \cup {inpt \in BoxInputs : inpt.meta.canvas \in GeoSizes}
           PaddedSize(inpt, padding) == spatial_size(F_pad(inpt, padding, "constant", 2))
       IN  \E x \in PadInputs, padding \in PadArgs, via \in {"F.pad", "RandomCrop"} :
             LET self == RandomCrop_init(PaddedSize(x, padding), padding, FALSE)
             IN  /\ fcall' = [fn |-> "pad", via |-> via, input |-> x, padding |-> padding]
                 /\ IF via = "F.pad"
                    THEN fresult' = [status |-> "ok", out |-> F_pad(x, padding, "constant", 2)]
                    ELSE \E params \in RandomCrop_get_params(self, <<x>>) :
                            fresult' =
                               IF params.status = "ok"
                               THEN RandomCrop_transform(self, x, params, 2)
                               ELSE [status |-> params.status, out |-> NoLeaf]
    /\ UNCHANGED <<tvars, dvars, qvars, nvars>>

\* RandomCrop(size, padding, pad_if_needed)(sample) for every input size up to
\* MaxSide and every crop size up to MaxSide + 1.
CallRandomCrop ==
    /\ Idle
    /\ LET CropSizes == (1..(MaxSide + 1)) \X (1..(MaxSide + 1))
           CropPaddings == {<<>>, <<MaxPad>>, <<0, MaxPad>>}
           CropSamples ==
               {GeoSample(ks, hw, FALSE, "XYXY") :
                   ks \in {<<"Image">>, <<"Object", "Mask", "BoundingBox">>},
                   hw \in (1..MaxSide) \X (1..MaxSide)}
       IN  \E size \in CropSizes, padding \in CropPaddings, pad_if_needed \in BOOLEAN,
              sample \in CropSamples :
             LET self == RandomCrop_init(size, padding, pad_if_needed)
             IN  \E r \in Transform_forward(self, sample) :
                    /\ fcall' = [fn |-> "random_crop", self |-> self, sample |-> sample]
                    /\ fresult' = r
    /\ UNCHANGED <<tvars, dvars, qvars, nvars>>

(***************************************************************************)
(* Sequential composition (references/depth/stereo/transforms.py).  A      *)
(* sample is the triple (images, disparities, masks), each a pair (left,   *)
(* right) of tensors or None.                                              *)
(***************************************************************************)
MaxStages == 3      \* transforms in a Compose

StereoNone == [shape |-> <<>>, dtype |-> "None", ops |-> <<>>]

IsNone(x) == x.dtype = "None"

NoStereoSample == [images |-> <<>>, disparities |-> <<>>, masks |-> <<>>]

StereoRaise(error) == [status |-> error, out |-> NoStereoSample]

\* ValidateModelInput.forward: a pass-through that checks shapes and dtypes.
ValidateModelInput_forward(sample) ==
    LET images == sample.images
        disparities == sample.disparities
        masks == sample.masks
        h == images[1].shape[Len(images[1].shape) - 1]
        w == images[1].shape[Len(images[1].shape)]
    IN  IF images[1].shape # images[2].shape THEN StereoRaise("ValueError")
        ELSE IF ~IsNone(disparities[1]) /\ disparities[1].shape # <<1, h, w>>
        THEN StereoRaise("ValueError")
        ELSE IF ~IsNone(masks[1]) /\ masks[1].shape # <<h, w>> THEN StereoRaise("ValueError")
        ELSE IF ~IsNone(masks[1]) /\ masks[1].dtype # "bool" THEN StereoRaise("TypeError")
        ELSE [status |-> "ok", out |-> sample]

\* MakeValidDisparityMask.forward: a missing mask is made from its disparity.
MakeValidDisparityMask_forward(sample) ==
    LET valid_mask(idx) ==
            IF IsNone(sample.masks[idx]) /\ ~IsNone(sample.disparities[idx])
            THEN [shape |-> Tail(sample.disparities[idx].shape), dtype |-> "bool",
                  ops |-> Append(sample.disparities[idx].ops, "logical_and")]
            ELSE sample.masks[idx]
    IN  [status |-> "ok",
         out |-> [sample EXCEPT !.masks = <<valid_mask(1), valid_mask(2)>>]]

\* Resize.forward: images, disparities and masks are resized to self.size (the
\* leading entries of a shape stay), None stays None.
StereoResize_forward(self, sample) ==
    LET resize(x) ==
            [x EXCEPT !.shape = SubSeq(@, 1, Len(@) - 2) \o self.size,
                      !.ops = Append(@, "resize")]
        each(x) == IF IsNone(x) THEN x ELSE resize(x)
    IN  [status |-> "ok",
         out |-> [images |-> <<resize(sample.images[1]), resize(sample.images[2])>>,
                  disparities |-> <<each(sample.disparities[1]), each(sample.disparities[2])>>,
                  masks |-> <<each(sample.masks[1]), each(sample.masks[2])>>]]

\* t(images, disparities, masks)
StereoStage_forward(t, sample) ==
    CASE t.cls = "ValidateModelInput" -> ValidateModelInput_forward(sample)
      [] t.cls = "MakeValidDisparityMask" -> MakeValidDisparityMask_forward(sample)
      [] t.cls = "Resize" -> StereoResize_forward(t, sample)

\* The loop of Compose.forward from stage k on.  The trace lists the stages
\* invoked, with what each received and gave back.
RECURSIVE Compose_loop(_, _, _, _)
Compose_loop(transforms, k, sample, trace) ==
    IF k > Len(transforms) THEN [status |-> "ok", out |-> sample, trace |-> trace]
    ELSE LET r == StereoStage_forward(transforms[k], sample)
             invoked == Append(trace, [t |-> transforms[k], input |-> sample,
                                       status |-> r.status, output |-> r.out])
         IN  IF r.status # "ok"
             THEN [status |-> r.status, out |-> NoStereoSample, trace |-> invoked]
             ELSE Compose_loop(transforms, k + 1, r.out, invoked)

\* Compose.forward running the transforms from the last to the first.
Compose_forward_reversed(transforms, sample) ==
    Compose_loop([i \in 1..Len(transforms) |-> transforms[Len(transforms) + 1 - i]],
                 1, sample, <<>>)

Compose_forward(transforms, sample) == Compose_loop(transforms, 1, sample, <<>>)

CallCompose ==
    /\ Idle
    /\ LET tensor(shape, dtype) == [shape |-> shape, dtype |-> dtype, ops |-> <<>>]
           stage(cls, size) == [cls |-> cls, size |-> size]
           StereoStages ==
               {stage("ValidateModelInput", <<>>), stage("MakeValidDisparityMask", <<>>),
                stage("Resize", <<MaxSide, MaxSide>>), stage("Resize", <<MaxSide - 1, MaxSide>>)}
           StereoSamples ==
               {[images |-> <<tensor(<<3, MaxSide - 1, MaxSide>>, "float"),
                              tensor(<<3, h, MaxSide>>, "float")>>,
                 disparities |-> <<d, StereoNone>>,
                 masks |-> <<m, StereoNone>>] :
                   h \in {MaxSide - 1, MaxSide},
                   d \in {StereoNone, tensor(<<1, MaxSide - 1, MaxSide>>, "float")},
                   m \in {StereoNone, tensor(<<MaxSide - 1, MaxSide>>, "bool"),
                          tensor(<<MaxSide - 1, MaxSide>>, "float")}}
       IN  \E n \in 0..MaxStages :
           \E transforms \in [1..n -> StereoStages], sample \in StereoSamples :
              /\ fcall' = [fn |-> "compose", transforms |-> transforms, sample |-> sample]
              /\ fresult' = Compose_forward(transforms, sample)
    /\ UNCHANGED <<tvars, dvars, qvars, nvars>>

(***************************************************************************)
(* Rotation (transforms/v2/_geometry.py, RandomRotation).                  *)
(***************************************************************************)
NoCenter == <<>>

\* The angles drawn are the quarter turns 0 and 90.
Angles == {0, 90}

\* RandomRotation.__init__: the center, when given, has two entries; expand
\* and center are stored as they come.
RandomRotation_init(degrees, expand, center) ==
    IF center # NoCenter /\ Len(center) # 2 THEN [status |-> "ValueError"]
    ELSE [status |-> "ok", cls |-> "RandomRotation", degrees |-> degrees,
          expand |-> expand, center |-> center]

\* RandomRotation._get_params: an angle of [degrees[0], degrees[1]].
RandomRotation_get_params(self) ==
    {[status |-> "ok", angle |-> a] :
        a \in {x \in Angles : self.degrees[1] <= x /\ x <= self.degrees[2]}}

\* F.rotate: with expand the output holds the whole rotated image, whatever
\* the center; without it the size stays.
F_rotate(inpt, angle, expand, center, newid) ==
    LET hw == spatial_size(inpt)
        turned == IF expand /\ angle % 180 = 90 THEN <<hw[2], hw[1]>> ELSE hw
    IN  [status |-> "ok",
         out |-> [KernelOutput(inpt, "rotate",
                               [angle |-> angle, expand |-> expand, center |-> center], newid)
                     EXCEPT !.shape = SetHW(@, turned[1], turned[2])]]

\* RandomRotation._transform
RandomRotation_transform(self, inpt, params, newid) ==
    F_rotate(inpt, params.angle, self.expand, self.center, newid)

\* F.rotate(x, angle, expand, center), and RandomRotation(degrees, expand,
\* center)(x).
CallRotate ==
    /\ Idle
    /\ LET RotateInputs ==
               {GeoLeaf(kind, 1, hw, "XYXY") :
                   kind \in {"Image", "Tensor", "PIL"}, hw \in GeoSizes \cup {ThinSize}}
           Centers == {NoCenter, <<1>>, <<0, 0>>, <<1, MaxSide - 1>>}
       IN  \E x \in RotateInputs, lo \in Angles, hi \in Angles, expand \in BOOLEAN,
              center \in Centers, via \in {"F.rotate", "RandomRotation"} :
             /\ lo <= hi
             /\ via = "F.rotate" => lo = hi /\ (center = NoCenter \/ Len(center) = 2)
             /\ fcall' = [fn |-> "rotate", via |-> via, input |-> x, degrees |-> <<lo, hi>>,
                          expand |-> expand, center |-> center]
             /\ IF via = "F.rotate"
                THEN fresult' = F_rotate(x, lo, expand, center, 2)
                ELSE LET self == RandomRotation_init(<<lo, hi>>, expand, center)
                     IN  IF self.status # "ok"
                         THEN fresult' = [status |-> self.status, out |-> NoLeaf]
                         ELSE \E params \in RandomRotation_get_params(self) :
                                 fresult' = RandomRotation_transform(self, x, params, 2)
    /\ UNCHANGED <<tvars, dvars, qvars, nvars>>

(***************************************************************************)
(* The like-constructors with the reference they read                      *)
(* (prototype/features/_feature.py, tv_tensors/__init__.py).               *)
(***************************************************************************)
\* Feature.new_like updating the metadata of other itself, not a copy of it.
new_like_call_aliased(cls, other, data, metadata) ==
    LET _metadata == [k \in DOMAIN other.meta |->
                        IF k \in DOMAIN metadata THEN metadata[k] ELSE other.meta[k]]
    IN  [status |-> "ok",
         out |-> [data EXCEPT !.type = cls, !.meta = _metadata],
         other |-> [other EXCEPT !.meta = _metadata]]

\* cls.new_like(other, data, **metadata): the metadata of other is copied, the
\* copy is updated, and other keeps what it had.
new_like_call(cls, other, data, metadata) ==
    [status |-> "ok", out |-> new_like(cls, other, data, metadata), other |-> other]

\* wrap(wrappee, like=like, **kwargs): like is only read.
wrap_call(wrappee, like, kwargs) ==
    [status |-> "ok", out |-> wrap(wrappee, like, kwargs), other |-> like]

CallLike ==
    /\ Idle
    /\ LET References ==
               {GeoLeaf(kind, 1, hw, format) :
                   kind \in {"Image", "Mask", "BoundingBox"}, hw \in GeoSizes \cup {ThinSize},
                   format \in {"XYXY", "CXCYWH"}}
           Overrides ==
               {NoMetadata} \cup {[format |-> f] : f \in {"XYXY", "XYWH"}}
               \cup {[canvas |-> c] : c \in {ThinSize}}
               \cup {[format |-> f, canvas |-> c] : f \in {"XYWH"}, c \in {ThinSize}}
       IN  \E like \in References, kwargs \in Overrides, via \in {"new_like", "wrap"} :
             LET data == [GeoLeaf("Tensor", 2, ThinSize, "XYXY") EXCEPT
                             !.shape = like.shape, !.data = like.data]
             IN  /\ via = "new_like" /\ like.type # "BoundingBox" => kwargs = NoMetadata
                 /\ fcall' = [fn |-> "like", via |-> via, like |-> like, data |-> data,
                              kwargs |-> kwargs]
                 /\ fresult' = IF via = "new_like"
                               THEN new_like_call(like.type, like, data, kwargs)
                               ELSE wrap_call(data, like, kwargs)
    /\ UNCHANGED <<tvars, dvars, qvars, nvars>>

(***************************************************************************)
(* Calls that need a bounding box.                                         *)
(***************************************************************************)
CallQueryBoundingBox ==
    /\ Idle
    /\ \E flat_sample \in QuerySamples :
          /\ fcall' = [fn |-> "query_bounding_box", sample |-> flat_sample]
          /\ fresult' = query_bounding_box(flat_sample)
    /\ UNCHANGED <<tvars, dvars, qvars, nvars>>

CallRandomIoUCrop ==
    /\ Idle
    /\ LET self == Self("RandomIoUCrop", PDen, <<>>, NoMaxSize, <<>>, FALSE)
           IoUSamples ==
               {GeoSample(ks, <<MaxSide + 1, MaxSide + 1>>, FALSE, format) :
                   ks \in UNION {[1..n -> {"Image", "PIL", "Tensor", "BoundingBox", "Mask",
                                           "Object"}] : n \in 1..MaxLeaves},
                   format \in {"XYXY", "CXCYWH"}}
       IN  \E sample \in IoUSamples :
           \E r \in Transform_forward(self, sample) :
              /\ fcall' = [fn |-> "random_iou_crop", self |-> self, sample |-> sample]
              /\ fresult' = r
    /\ UNCHANGED <<tvars, dvars, qvars, nvars>>

(***************************************************************************)
(* Usage telemetry of the dispatchers of transforms/v2/functional: the     *)
(* log is the sequence of calls of torch._C._log_api_usage_once, each with *)
(* its key (module, name).                                                 *)
(***************************************************************************)
DispatcherModule(op) ==
    IF op = "resize" THEN "torchvision.transforms.v2.functional._geometry"
    ELSE "torchvision.transforms.v2.functional._misc"

\* _log_api_usage_once(dispatcher): one call keyed by the qualified name.
_log_api_usage_once(log, op) == Append(log, <<DispatcherModule(op), op>>)

\* The kernel a dispatcher calls directly under torch.jit.is_scripting().
ScriptedKernel(op) ==
    CASE op = "normalize" -> "normalize_image_tensor"
      [] op = "gaussian_blur" -> "gaussian_blur_image_tensor"
      [] op = "to_dtype" -> "to_dtype_image_tensor"

\* A dispatcher that logs once it has found its kernel.
Dispatcher_logafter(op, inpt, kwargs, scripting, newid) ==
    IF scripting
    THEN {[log |-> <<>>,
           status |-> "ok",
           out |-> RunKernel(ScriptedKernel(op), inpt, kwargs, newid)]}
    ELSE LET r == v2_dispatch(op, inpt, kwargs, newid)
         IN  {[log |-> IF r.status = "ok" THEN _log_api_usage_once(<<>>, op) ELSE <<>>,
               status |-> r.status,
               out |-> r.out]}

\* normalize, gaussian_blur and to_dtype: under scripting the image kernel,
\* called directly; otherwise the usage event, then the kernel lookup by the
\* type of the input, then the kernel.
Dispatcher(op, inpt, kwargs, scripting, newid) ==
    IF scripting
    THEN {[log |-> <<>>,
           status |-> "ok",
           out |-> RunKernel(ScriptedKernel(op), inpt, kwargs, newid)]}
    ELSE LET log == _log_api_usage_once(<<>>, op)
             r == v2_dispatch(op, inpt, kwargs, newid)
         IN  {[log |-> log, status |-> r.status, out |-> r.out]}

\* The input types F.resize has kernels for.
ResizeTypes == {"Tensor", "Image", "PIL", "BoundingBox", "Mask", "Video"}

\* F.resize as check_dispatcher sees it: a dispatch that succeeds has logged
\* the event; an input of an unknown type raises TypeError, with or without
\* the event.
resize_dispatcher(inpt, kwargs, newid) ==
    IF inpt.type \in ResizeTypes
    THEN LET r == F_resize(inpt, kwargs.size, NoMaxSize, newid)
         IN  {[log |-> _log_api_usage_once(<<>>, "resize"), status |-> r.status, out |-> r.out]}
    ELSE {[log |-> log, status |-> "TypeError", out |-> NoLeaf] :
            log \in {<<>>, _log_api_usage_once(<<>>, "resize")}}

CallDispatcher ==
    /\ Idle
    /\ \E op \in V2Ops \cup {"resize"}, inpt \in DispatchInputs, size \in DispatchSizes,
          scripting \in BOOLEAN :
          /\ scripting => op # "resize" /\ inpt.type = "Tensor"
          /\ \E r \in IF op = "resize" THEN resize_dispatcher(inpt, [size |-> size], 2)
                      ELSE Dispatcher(op, inpt, [size |-> size], scripting, 2) :
                /\ fcall' = [fn |-> "dispatcher", op |-> op, input |-> inpt,
                             kwargs |-> [size |-> size], scripting |-> scripting]
                /\ fresult' = r
    /\ UNCHANGED <<tvars, dvars, qvars, nvars>>

(***************************************************************************)
(* The random transforms of references/depth/stereo/transforms.py.         *)
(* torch.rand(1) is u / PDen with u in 0..PDen-1, the probability p its    *)
(* numerator over PDen.                                                    *)
(***************************************************************************)
StereoTensor(shape, dtype) == [shape |-> shape, dtype |-> dtype, ops |-> <<>>]

\* What a functional returns: the tensor with the operation recorded.
StereoOp(x, op) == [x EXCEPT !.ops = Append(@, op)]

StereoOk(images, disparities, masks) ==
    [status |-> "ok",
     out |-> [images |-> images, disparities |-> disparities, masks |-> masks]]

\* RandomHorizontalFlip.forward: taken when there is a right disparity and
\* torch.rand(1) > p; F.hflip of a None left disparity raises; the masks are
\* mirrored when both are given, and the three pairs come back swapped.
StereoRandomHorizontalFlip_forward(self, sample, u) ==
    LET img == sample.images
        dsp == sample.disparities
        mask == sample.masks
        flipped == ~IsNone(mask[1]) /\ ~IsNone(mask[2])
        m(x) == IF flipped THEN StereoOp(x, "hflip") ELSE x
    IN  IF ~IsNone(dsp[2]) /\ u > self.p
        THEN IF IsNone(dsp[1]) THEN StereoRaise("TypeError")
             ELSE StereoOk(<<StereoOp(img[2], "hflip"), StereoOp(img[1], "hflip")>>,
                           <<StereoOp(dsp[2], "hflip"), StereoOp(dsp[1], "hflip")>>,
                           <<m(mask[2]), m(mask[1])>>)
        ELSE StereoOk(img, dsp, mask)

\* torch.randint(max_erase, size=(max_erase,)).item(): a tensor of max_erase
\* draws from 0..max_erase-1, which item() converts only when it has one
\* entry.
EraseCount(max_erase) ==
    IF max_erase = 1 THEN {[status |-> "ok", n |-> 0]} ELSE {[status |-> "RuntimeError", n |-> 0]}

\* n rounds of the erasing loop of RandomErase.forward.
RECURSIVE EraseLoop(_, _, _)
EraseLoop(n, images, masks) ==
    IF n = 0 THEN <<images, masks>>
    ELSE LET each(x) == IF IsNone(x) THEN x ELSE StereoOp(x, "erase")
         IN  EraseLoop(n - 1, <<StereoOp(images[1], "erase"), StereoOp(images[2], "erase")>>,
                       <<each(masks[1]), each(masks[2])>>)

\* RandomErase.forward: returns its arguments when torch.rand(1) > p.
RandomErase_forward(self, sample, u) ==
    IF u > self.p THEN {StereoOk(sample.images, sample.disparities, sample.masks)}
    ELSE {IF c.status # "ok" THEN StereoRaise(c.status)
          ELSE LET erased == EraseLoop(c.n, sample.images, sample.masks)
               IN  StereoOk(erased[1], sample.disparities, erased[2]) :
             c \in EraseCount(self.max_erase)}

\* RandomOcclusion.forward: returns its arguments when torch.rand(1) > p,
\* else erases a patch of the right image; random.randint(crop, img - crop)
\* raises on an empty range.
RandomOcclusion_forward(self, sample, u) ==
    IF u > self.p THEN {StereoOk(sample.images, sample.disparities, sample.masks)}
    ELSE LET shape == sample.images[2].shape
             img_h == shape[Len(shape) - 1]
             img_w == shape[Len(shape)]
         IN  {IF 2 * crop[1] > img_h \/ 2 * crop[2] > img_w THEN StereoRaise("ValueError")
              ELSE StereoOk(<<sample.images[1], StereoOp(sample.images[2], "erase")>>,
                            sample.disparities, sample.masks) :
                crop \in (self.min_px..self.max_px) \X (self.min_px..self.max_px)}

\* RandomSpatialShift.forward: the right image goes through F.affine when
\* torch.rand(1) > p.
RandomSpatialShift_forward(self, sample, u) ==
    IF u > self.p
    THEN {StereoOk(<<sample.images[1], StereoOp(sample.images[2], "affine")>>,
                   sample.disparities, sample.masks)}
    ELSE {StereoOk(sample.images, sample.disparities, sample.masks)}

StereoRandom_forward(self, sample, u) ==
    CASE self.cls = "RandomHorizontalFlip" -> {StereoRandomHorizontalFlip_forward(self, sample, u)}
      [] self.cls = "RandomErase" -> RandomErase_forward(self, sample, u)
      [] self.cls = "RandomOcclusion" -> RandomOcclusion_forward(self, sample, u)
      [] self.cls = "RandomSpatialShift" -> RandomSpatialShift_forward(self, sample, u)

CallStereoRandom ==
    /\ Idle
    /\ LET hw == <<MaxSide - 1, MaxSide>>
           StereoRandomSamples ==
               {[images |-> <<StereoTensor(<<3>> \o hw, "float"), StereoTensor(<<3>> \o hw, "float")>>,
                 disparities |-> <<dl, dr>>,
                 masks |-> <<ml, mr>>] :
                   dl \in {StereoNone, StereoTensor(<<1>> \o hw, "float")},
                   dr \in {StereoNone, StereoTensor(<<1>> \o hw, "float")},
                   ml \in {StereoNone, StereoTensor(hw, "bool")},
                   mr \in {StereoNone, StereoTensor(hw, "bool")}}
           StereoRandomSelfs ==
               {[cls |-> cls, p |-> p, max_erase |-> max_erase, min_px |-> 1, max_px |-> max_px] :
                   cls \in {"RandomHorizontalFlip", "RandomErase", "RandomOcclusion",
                            "RandomSpatialShift"},
                   p \in 0..PDen, max_erase \in 1..2, max_px \in 1..2}
       IN  \E self \in StereoRandomSelfs, sample \in StereoRandomSamples, u \in 0..(PDen - 1) :
           \E r \in StereoRandom_forward(self, sample, u) :
              /\ fcall' = [fn |-> "stereo_random", self |-> self, sample |-> sample, u |-> u]
              /\ fresult' = r
    /\ UNCHANGED <<tvars, dvars, qvars, nvars>>

(***************************************************************************)
(* RandomResizedCrop._get_params (transforms/v2/_geometry.py).  scale and  *)
(* ratio are pairs of fractions <<numerator, denominator>>.                *)
(***************************************************************************)
ResizedCropAttempts == 10

\* int(round(math.sqrt(n / d))) for n >= 0, d > 0; a tie goes to the even one.
RoundSqrt(n, d) ==
    CHOOSE k \in 0..(n + 1) :
        /\ \/ k = 0
           \/ (2 * k - 1) * (2 * k - 1) * d < 4 * n
           \/ (2 * k - 1) * (2 * k - 1) * d = 4 * n /\ k % 2 = 0
        /\ \/ 4 * n < (2 * k + 1) * (2 * k + 1) * d
           \/ 4 * n = (2 * k + 1) * (2 * k + 1) * d /\ k % 2 = 0

\* Values torch.empty(1).uniform_(lo, hi) can give: the ends and the middle.
UniformDraws(lo, hi) ==
    {lo, hi, <<lo[1] * hi[2] + hi[1] * lo[2], 2 * lo[2] * hi[2]>>}

\* Values of exp(uniform_(log lo, log hi)): the ends, and 1 when in between.
LogUniformDraws(lo, hi) ==
    {lo, hi} \cup (IF lo[1] < lo[2] /\ hi[2] < hi[1] THEN {<<1, 1>>} ELSE {})

\* The else branch of the for loop: the central crop.
ResizedCropFallback(self, height, width) ==
    LET lo == self.ratio[1]
        hi == self.ratio[2]
        w == IF width * lo[2] < lo[1] * height THEN width
             ELSE IF width * hi[2] > hi[1] * height THEN RoundDiv(height * hi[1], hi[2])
             ELSE width
        h == IF width * lo[2] < lo[1] * height THEN RoundDiv(width * lo[2], lo[1])
             ELSE height
    IN  [status |-> "ok", top |-> (height - h) \div 2, left |-> (width - w) \div 2,
         height |-> h, width |-> w, attempts |-> ResizedCropAttempts, fallback |-> TRUE]

\* RandomResizedCrop._get_params on an image of size (height, width): the
\* window of the first attempt whose w and h fit the image, or the central
\* crop after ResizedCropAttempts attempts of which none fits.
RandomResizedCrop_get_params(self, height, width) ==
    LET area == height * width
        draws == {[w |-> RoundSqrt(area * s[1] * a[1], s[2] * a[2]),
                   h |-> RoundSqrt(area * s[1] * a[2], s[2] * a[1])] :
                     s \in UniformDraws(self.scale[1], self.scale[2]),
                     a \in LogUniformDraws(self.ratio[1], self.ratio[2])}
        fits == {d \in draws : 0 < d.w /\ d.w <= width /\ 0 < d.h /\ d.h <= height}
    IN  UNION {{[status |-> "ok", top |-> i, left |-> j, height |-> d.h, width |-> d.w,
                 attempts |-> k, fallback |-> FALSE] :
                   i \in 0..(height - d.h), j \in 0..(width - d.w),
                   k \in IF fits = draws THEN {1} ELSE 1..ResizedCropAttempts} :
               d \in fits}
        \cup (IF fits # draws THEN {ResizedCropFallback(self, height, width)} ELSE {})

CallRandomResizedCrop ==
    /\ Idle
    /\ LET ResizedCropScales == {<<(<<8, 100>>), (<<1, 1>>)>>, <<(<<1, 1>>), (<<1, 1>>)>>}
           ResizedCropRatios == {<<(<<3, 4>>), (<<4, 3>>)>>, <<(<<3, 1>>), (<<4, 1>>)>>,
                                 <<(<<1, 4>>), (<<1, 3>>)>>}
       IN  \E scale \in ResizedCropScales, ratio \in ResizedCropRatios,
              height \in 1..MaxSide, width \in 1..MaxSide :
           LET self == [cls |-> "RandomResizedCrop", scale |-> scale, ratio |-> ratio]
           IN  \E r \in RandomResizedCrop_get_params(self, height, width) :
                  /\ fcall' = [fn |-> "random_resized_crop", self |-> self,
                               height |-> height, width |-> width]
                  /\ fresult' = r
    /\ UNCHANGED <<tvars, dvars, qvars, nvars>>

(***************************************************************************)
(* RandomResize (transforms/v2/_geometry.py) and the evaluation preset     *)
(* that builds one (references/segmentation/presets.py).                   *)
(***************************************************************************)
\* int(torch.randint(low, high, ())): low <= value < high; an empty range raises.
torch_randint(low, high) ==
    IF low >= high THEN {[status |-> "RuntimeError", value |-> 0]}
    ELSE {[status |-> "ok", value |-> v] : v \in low..(high - 1)}

RandomResize_init(min_size, max_size) ==
    [cls |-> "RandomResize", min_size |-> min_size, max_size |-> max_size]

\* RandomResize._get_params: size = int(torch.randint(self.min_size, self.max_size, ()))
RandomResize_get_params(self) ==
    {IF d.status = "ok" THEN [status |-> "ok", size |-> <<d.value>>]
     ELSE [status |-> d.status, size |-> <<>>] :
        d \in torch_randint(self.min_size, self.max_size)}

\* SegmentationPresetEval.__init__: T.RandomResize(min_size=base_size, max_size=base_size)
SegmentationPresetEval_init(base_size) == RandomResize_init(base_size, base_size)

CallRandomResize ==
    /\ Idle
    /\ \E min_size \in 1..(MaxSide + 1), max_size \in 1..(MaxSide + 1), preset \in BOOLEAN :
          /\ min_size <= max_size
          /\ preset => min_size = max_size
          /\ LET self == IF preset THEN SegmentationPresetEval_init(min_size)
                         ELSE RandomResize_init(min_size, max_size)
             IN  \E r \in RandomResize_get_params(self) :
                    /\ fcall' = [fn |-> "random_resize", self |-> self, preset |-> preset]
                    /\ fresult' = r
    /\ UNCHANGED <<tvars, dvars, qvars, nvars>>

(***************************************************************************)
(* _resize_sparse_flow (references/depth/stereo/transforms.py).  A flow is *)
(* a grid of numbers, its mask a grid of booleans; a scale is a fraction   *)
(* <<numerator, denominator>>; positions count from 0 as in the source.    *)
(***************************************************************************)
SparseScales == {<<1, 2>>, <<1, 1>>, <<3, 2>>, <<2, 1>>}

\* int(round(h * scale_y)), int(round(w * scale_x))
SparseFlowNewSize(h, w, scale_x, scale_y) ==
    <<RoundDiv(h * scale_y[1], scale_y[2]), RoundDiv(w * scale_x[1], scale_x[2])>>

\* The valid pixels (ii_valid, jj_valid) and where they go, within bounds.
SparseFlowMoves(valid_flow_mask, h, w, scale_x, scale_y) ==
    LET new == SparseFlowNewSize(h, w, scale_x, scale_y)
    IN  {m \in {[ii |-> i, jj |-> j,
                 ii_new |-> RoundDiv(i * scale_y[1], scale_y[2]),
                 jj_new |-> RoundDiv(j * scale_x[1], scale_x[2])] :
                   i \in 0..(h - 1), j \in 0..(w - 1)} :
            /\ valid_flow_mask[m.ii + 1][m.jj + 1]
            /\ m.ii_new < new[1] /\ m.jj_new < new[2]}

\* The results of the indexed assignments, given the scaled values
\* valid_flow_new(m) of the moved pixels: a position several pixels go to
\* keeps one of their values.
SparseFlowResults(flow, valid_flow_mask, h, w, scale_x, scale_y, moves, valid_flow_new(_)) ==
    LET new == SparseFlowNewSize(h, w, scale_x, scale_y)
        targets == {<<m.ii_new, m.jj_new>> : m \in moves}
        writers(t) == {m \in moves : m.ii_new = t[1] /\ m.jj_new = t[2]}
        winners == {f \in [targets -> moves] : \A t \in targets : f[t] \in writers(t)}
    IN  {[status |-> "ok",
          flow_new |-> [a \in 1..new[1] |-> [b \in 1..new[2] |->
                          IF <<a - 1, b - 1>> \in targets
                          THEN valid_flow_new(f[<<a - 1, b - 1>>]) ELSE <<0, 1>>]],
          valid_new |-> [a \in 1..new[1] |-> [b \in 1..new[2] |-> <<a - 1, b - 1>> \in targets]],
          flow |-> flow,
          valid_flow_mask |-> valid_flow_mask] : f \in winners}

\* _resize_sparse_flow with the values multiplied by scale_y.
_resize_sparse_flow_scale_y(flow, valid_flow_mask, scale_x, scale_y) ==
    LET h == Len(flow)
        w == Len(flow[1])
        moves == SparseFlowMoves(valid_flow_mask, h, w, scale_x, scale_y)
        valid_flow_new(m) == <<flow[m.ii + 1][m.jj + 1] * scale_y[1], scale_y[2]>>
    IN  SparseFlowResults(flow, valid_flow_mask, h, w, scale_x, scale_y, moves, valid_flow_new)

\* _resize_sparse_flow: flow[:, ii_valid, jj_valid] is a copy, so `*= scale_x`
\* leaves flow as it was.
_resize_sparse_flow(flow, valid_flow_mask, scale_x, scale_y) ==
    LET h == Len(flow)
        w == Len(flow[1])
        moves == SparseFlowMoves(valid_flow_mask, h, w, scale_x, scale_y)
        valid_flow_new(m) == <<flow[m.ii + 1][m.jj + 1] * scale_x[1], scale_x[2]>>
    IN  SparseFlowResults(flow, valid_flow_mask, h, w, scale_x, scale_y, moves, valid_flow_new)

CallResizeSparseFlow ==
    /\ Idle
    /\ \E h \in 1..(MaxSide - 1), w \in 1..(MaxSide - 1), scale_x \in SparseScales,
          scale_y \in SparseScales :
       \E valid_flow_mask \in [1..h -> [1..w -> BOOLEAN]] :
       \E r \in _resize_sparse_flow(Pixels(<<h, w>>), valid_flow_mask, scale_x, scale_y) :
          /\ fcall' = [fn |-> "_resize_sparse_flow", flow |-> Pixels(<<h, w>>),
                       valid_flow_mask |-> valid_flow_mask,
                       scale_x |-> scale_x, scale_y |-> scale_y]
          /\ fresult' = r
    /\ UNCHANGED <<tvars, dvars, qvars, nvars>>

(***************************************************************************)
(* RandomResizeAndCrop (references/depth/stereo/transforms.py).  A tensor  *)
(* carries its shape, the view it comes from followed by the operations    *)
(* applied to it, and the window of its last crop.                         *)
(***************************************************************************)
CropMargin == 8

ViewTensor(shape, dtype, view) ==
    [shape |-> shape, dtype |-> dtype, ops |-> <<view>>, window |-> <<>>]

\* F.resize(x, size=(new_h, new_w))
StereoResized(x, new_h, new_w) ==
    [x EXCEPT !.shape = SubSeq(@, 1, Len(@) - 2) \o <<new_h, new_w>>,
              !.ops = Append(@, "resize")]

\* F.crop(x, y0, x0, height, width): the output has the size asked for.
StereoCropped(x, y0, x0, height, width) ==
    [x EXCEPT !.shape = SubSeq(@, 1, Len(@) - 2) \o <<height, width>>,
              !.ops = Append(@, "crop"),
              !.window = <<y0, x0>>]

\* a >= b for fractions with positive denominators
FracMax(a, b) == IF a[1] * b[2] >= b[1] * a[2] THEN a ELSE b

\* One pass of `for disparity, mask in zip(disparities, masks)`: the values of
\* resized_disparity and resized_mask after it, which are those of the pass
\* before when the disparity is None.  The sparse branch calls
\* _resize_sparse_flow(disparity, mask, scale_x=scale_x), scale_y being 0.0.
ResizeDisparityPass(disparity, mask, new_h, new_w, scale_x, before) ==
    IF IsNone(disparity) THEN before
    ELSE IF IsNone(mask)
    THEN [bound |-> TRUE,
          resized_disparity |-> StereoOp(StereoResized(disparity, new_h, new_w), "mul"),
          resized_mask |-> StereoNone]
    ELSE LET old == disparity.shape
             new == SparseFlowNewSize(old[Len(old) - 1], old[Len(old)], scale_x, <<0, 1>>)
         IN  [bound |-> TRUE,
              resized_disparity |->
                  [disparity EXCEPT !.shape = <<1, new[1], new[2]>>,
                                    !.ops = Append(@, "_resize_sparse_flow")],
              resized_mask |->
                  [mask EXCEPT !.shape = new, !.ops = Append(@, "_resize_sparse_flow")]]

\* RandomResizeAndCrop.forward, given the scale drawn and torch.rand(1) = u / PDen.
RandomResizeAndCrop_forward(self, sample, scale, u) ==
    LET images == sample.images
        disparities == sample.disparities
        masks == sample.masks
        shape == images[1].shape
        h == shape[Len(shape) - 1]
        w == shape[Len(shape)]
        min_scale == FracMax(<<self.crop_size[1] + CropMargin, h>>,
                             <<self.crop_size[2] + CropMargin, w>>)
        scale_x == FracMax(scale, min_scale)
        scale_y == FracMax(scale, min_scale)
        new_h == RoundDiv(h * scale_y[1], scale_y[2])
        new_w == RoundDiv(w * scale_x[1], scale_x[2])
        resizing == u < self.resize_prob
        unbound == [bound |-> FALSE, resized_disparity |-> StereoNone, resized_mask |-> StereoNone]
        first == ResizeDisparityPass(disparities[1], masks[1], new_h, new_w, scale_x, unbound)
        second == ResizeDisparityPass(disparities[2], masks[2], new_h, new_w, scale_x, first)
        img == IF resizing
               THEN <<StereoResized(images[1], new_h, new_w), StereoResized(images[2], new_h, new_w)>>
               ELSE images
        dsp == IF resizing THEN <<first.resized_disparity, second.resized_disparity>>
               ELSE disparities
        msk == IF resizing THEN <<first.resized_mask, second.resized_mask>> ELSE masks
        crop(x, y0, x0) == StereoCropped(x, y0, x0, self.crop_size[1], self.crop_size[2])
        each(x, y0, x0) == IF IsNone(x) THEN x ELSE crop(x, y0, x0)
    IN  IF resizing /\ ~first.bound THEN {StereoRaise("UnboundLocalError")}
        ELSE {IF y.status # "ok" \/ x.status # "ok" THEN StereoRaise("RuntimeError")
              ELSE StereoOk(<<crop(img[1], y.value, x.value), crop(img[2], y.value, x.value)>>,
                            <<IF IsNone(disparities[1]) THEN StereoNone
                              ELSE crop(dsp[1], y.value, x.value),
                              IF IsNone(disparities[2]) THEN StereoNone
                              ELSE crop(dsp[2], y.value, x.value)>>,
                            <<each(msk[1], y.value, x.value), each(msk[2], y.value, x.value)>>) :
                y \in torch_randint(0, img[1].shape[2] - self.crop_size[1]),
                x \in torch_randint(0, img[2].shape[3] - self.crop_size[2])}

CallRandomResizeAndCrop ==
    /\ Idle
    /\ LET hw == <<MaxSide, MaxSide>>
           ResizeAndCropSamples ==
               {[images |-> <<ViewTensor(<<3>> \o hw, "float", "left"),
                              ViewTensor(<<3>> \o hw, "float", "right")>>,
                 disparities |-> <<dl, dr>>,
                 masks |-> <<ml, mr>>] :
                   dl \in {StereoNone, ViewTensor(<<1>> \o hw, "float", "left")},
                   dr \in {StereoNone, ViewTensor(<<1>> \o hw, "float", "right")},
                   ml \in {StereoNone, ViewTensor(hw, "bool", "left")},
                   mr \in {StereoNone, ViewTensor(hw, "bool", "right")}}
       IN  \E sample \in ResizeAndCropSamples, resize_prob \in 0..PDen, u \in 0..(PDen - 1),
              scale \in {<<1, 2>>, <<4, 1>>}, crop_h \in {MaxSide - 1, MaxSide} :
           LET self == [cls |-> "RandomResizeAndCrop", crop_size |-> <<crop_h, MaxSide - 1>>,
                        resize_prob |-> resize_prob]
           IN  \E r \in RandomResizeAndCrop_forward(self, sample, scale, u) :
                  /\ fcall' = [fn |-> "resize_and_crop", self |-> self, sample |-> sample,
                               scale |-> scale, u |-> u]
                  /\ fresult' = r
    /\ UNCHANGED <<tvars, dvars, qvars, nvars>>

(***************************************************************************)
(* to_dtype kernels (v2/functional/_misc.py).  An integer tensor holds one *)
(* value as the bits of its storage, most significant first (two's         *)
(* complement, uint8 unsigned); a floating tensor holds the quotient of    *)
(* two such numbers.  id tells the input's tensor from one made anew.      *)
(***************************************************************************)
IntDtypes == {"uint8", "int8", "int16", "int32", "int64"}

FloatDtypes == {"float32", "float64"}

StorageBits(dtype) ==
    CASE dtype = "bool" -> 1
      [] dtype \in {"uint8", "int8"} -> 8
      [] dtype = "int16" -> 16
      [] dtype \in {"int32", "float32"} -> 32
      [] OTHER -> 64

_num_value_bits(dtype) ==
    CASE dtype = "uint8" -> [status |-> "ok", value |-> 8]
      [] dtype = "int8" -> [status |-> "ok", value |-> 7]
      [] dtype = "int16" -> [status |-> "ok", value |-> 15]
      [] dtype = "int32" -> [status |-> "ok", value |-> 31]
      [] dtype = "int64" -> [status |-> "ok", value |-> 63]
      [] OTHER -> [status |-> "TypeError", value |-> 0]

Zeros(n) == [i \in 1..n |-> 0]

Ones(n) == [i \in 1..n |-> 1]

\* _max_value(dtype) of an integer dtype: all value bits set.
_max_value(dtype) == Ones(_num_value_bits(dtype).value)

\* Tensor.to(dtype): self when the dtype is the tensor's, else a new tensor;
\* integers are truncated or sign-extended to the new storage, a float is
\* truncated towards zero (the floats here are 0.0, 1.0 or an integer over
\* a maximum), anything non-zero is True.
Tensor_to(x, dtype) ==
    LET from == x.dtype
        isint == from \in IntDtypes
        bits == IF isint THEN x.value ELSE x.value.num
        W == StorageBits(dtype)
        L == Len(bits)
        fill == IF from = "int8" \/ from = "int16" \/ from = "int32" \/ from = "int64"
                THEN bits[1] ELSE 0
        intbits == IF W <= L THEN SubSeq(bits, L - W + 1, L)
                   ELSE [i \in 1..(W - L) |-> fill] \o bits
        unit == x.value.den = <<1>>
        value == CASE dtype \in FloatDtypes /\ isint -> [num |-> bits, den |-> <<1>>]
                   [] dtype \in FloatDtypes /\ ~isint -> x.value
                   [] dtype = "bool" -> IF \E i \in 1..L : bits[i] = 1 THEN <<1>> ELSE <<0>>
                   [] isint -> intbits
                   [] OTHER -> IF unit THEN intbits ELSE Zeros(W)
    IN  IF from = dtype THEN x
        ELSE [x EXCEPT !.dtype = dtype, !.value = value, !.id = "new"]

\* image.bitwise_right_shift(k): a new tensor, the shift is arithmetic
bitwise_right_shift(x, k) ==
    LET bits == x.value
        fill == IF x.dtype = "uint8" THEN 0 ELSE bits[1]
    IN  [x EXCEPT !.value = [i \in 1..k |-> fill] \o SubSeq(bits, 1, Len(bits) - k),
                  !.id = "new"]

\* image.bitwise_left_shift_(k): in place, the bits shifted out are lost
bitwise_left_shift_(x, k) ==
    [x EXCEPT !.value = SubSeq(@, k + 1, Len(@)) \o Zeros(k)]

\* image.mul(max_value + 1.0 - eps).to(dtype) for the floats 0.0 and 1.0
FloatToInt(image, dtype) ==
    LET W == StorageBits(dtype)
        max_value == _max_value(dtype)
        one == image.value.num = image.value.den
    IN  [image EXCEPT !.dtype = dtype, !.id = "new",
                      !.value = IF one THEN Zeros(W - Len(max_value)) \o max_value
                                ELSE Zeros(W)]

ToDtypeOk(out) == [status |-> "ok", out |-> out]

ToDtypeRaise(error) == [status |-> error, out |-> [none |-> TRUE]]

to_dtype_image_tensor_cast_first(image, dtype, scale) ==
    LET float_input == image.dtype \in FloatDtypes
        float_output == dtype \in FloatDtypes
        num_value_bits_input == _num_value_bits(image.dtype)
        num_value_bits_output == _num_value_bits(dtype)
    IN  IF image.dtype = dtype THEN ToDtypeOk(image)
        ELSE IF ~scale THEN ToDtypeOk(Tensor_to(image, dtype))
        ELSE IF float_input
        THEN IF float_output THEN ToDtypeOk(Tensor_to(image, dtype))
             ELSE IF \/ image.dtype = "float32" /\ dtype \in {"int32", "int64"}
                     \/ image.dtype = "float64" /\ dtype = "int64"
             THEN ToDtypeRaise("RuntimeError")
             ELSE IF _num_value_bits(dtype).status # "ok" THEN ToDtypeRaise("TypeError")
             ELSE ToDtypeOk(FloatToInt(image, dtype))
        ELSE IF float_output
        THEN ToDtypeOk([Tensor_to(image, dtype) EXCEPT !.value.den = _max_value(image.dtype)])
        ELSE IF num_value_bits_output.status # "ok" THEN ToDtypeRaise("TypeError")
        ELSE IF num_value_bits_input.value > num_value_bits_output.value
        THEN ToDtypeOk(bitwise_right_shift(Tensor_to(image, dtype),
                          num_value_bits_input.value - num_value_bits_output.value))
        ELSE ToDtypeOk(bitwise_left_shift_(Tensor_to(image, dtype),
                          num_value_bits_output.value - num_value_bits_input.value))

to_dtype_image_tensor(image, dtype, scale) ==
    LET float_input == image.dtype \in FloatDtypes
        float_output == dtype \in FloatDtypes
        num_value_bits_input == _num_value_bits(image.dtype)
        num_value_bits_output == _num_value_bits(dtype)
    IN  IF image.dtype = dtype THEN ToDtypeOk(image)
        ELSE IF ~scale THEN ToDtypeOk(Tensor_to(image, dtype))
        ELSE IF float_input
        THEN IF float_output THEN ToDtypeOk(Tensor_to(image, dtype))
             ELSE IF \/ image.dtype = "float32" /\ dtype \in {"int32", "int64"}
                     \/ image.dtype = "float64" /\ dtype = "int64"
             THEN ToDtypeRaise("RuntimeError")
             ELSE IF _num_value_bits(dtype).status # "ok" THEN ToDtypeRaise("TypeError")
             ELSE ToDtypeOk(FloatToInt(image, dtype))
        ELSE IF float_output
        THEN ToDtypeOk([Tensor_to(image, dtype) EXCEPT !.value.den = _max_value(image.dtype)])
        ELSE IF num_value_bits_output.status # "ok" THEN ToDtypeRaise("TypeError")
        ELSE IF num_value_bits_input.value > num_value_bits_output.value
        THEN ToDtypeOk(Tensor_to(bitwise_right_shift(image,
                          num_value_bits_input.value - num_value_bits_output.value), dtype))
        ELSE ToDtypeOk(bitwise_left_shift_(Tensor_to(image, dtype),
                          num_value_bits_output.value - num_value_bits_input.value))

_to_dtype_tensor_dispatch(inpt, dtype, scale) == ToDtypeOk(Tensor_to(inpt, dtype))

\* the kernels registered for to_dtype
to_dtype_kernel(inpt, dtype, scale) ==
    IF inpt.type \in {"BoundingBoxes", "Mask"} THEN _to_dtype_tensor_dispatch(inpt, dtype, scale)
    ELSE to_dtype_image_tensor(inpt, dtype, scale)

\* The values tried for an integer dtype, all in [0, 2^bits - 1].
IntValues(dtype) ==
    LET bits == _num_value_bits(dtype).value
        pad == Zeros(StorageBits(dtype) - bits)
    IN  {pad \o Zeros(bits), pad \o Ones(bits), pad \o Zeros(bits - 1) \o <<1>>,
         pad \o <<1>> \o Zeros(bits - 1), pad \o [i \in 1..bits |-> i % 2],
         pad \o [i \in 1..bits |-> IF i % 3 = 0 THEN 1 ELSE 0]}

CallToDtype ==
    /\ Idle
    /\ \E type \in {"Tensor", "Image", "Video", "BoundingBoxes", "Mask"},
          from \in IntDtypes \cup FloatDtypes,
          dtype \in IntDtypes \cup FloatDtypes \cup {"bool"}, scale \in BOOLEAN :
       \E value \in IF from \in IntDtypes THEN IntValues(from)
                    ELSE {[num |-> <<0>>, den |-> <<1>>], [num |-> <<1>>, den |-> <<1>>]} :
          LET inpt == [type |-> type, dtype |-> from, value |-> value, id |-> "input"]
          IN  /\ fcall' = [fn |-> "to_dtype", input |-> inpt, dtype |-> dtype, scale |-> scale]
              /\ fresult' = to_dtype_kernel(inpt, dtype, scale)
    /\ UNCHANGED <<tvars, dvars, qvars, nvars>>

ReturnFunctional ==
    /\ fcall # NoCall
    /\ fcall' = NoCall
    /\ fresult' = NoResult
    /\ UNCHANGED <<tvars, dvars, qvars, nvars>>

(***************************************************************************)
(* The specification.                                                      *)
(***************************************************************************)
Init ==
    /\ tcall = NoCall /\ tresult = NoResult
    /\ dcall = NoCall /\ dresult = NoResult
    /\ qcall = NoCall /\ qresult = NoResult
    /\ heap = <<>> /\ ncall = NoCall /\ nresult = NoResult
    /\ fcall = NoCall /\ fresult = NoResult

Next ==
    \/ CallTransform \/ CallRandomApply \/ CallMixupCutmix \/ ReturnTransform
    \/ CallDispatch \/ ReturnDispatch
    \/ CallQueryChw \/ ReturnQuery
    \/ CallNormalize \/ ReturnNormalize
    \/ CheckKernelBatchedVsSingle \/ TestFnOnBatch
    \/ FlipTwice \/ PadThenCrop \/ CallPad \/ CallRandomCrop
    \/ CallCompose \/ CallRotate \/ CallLike
    \/ CallQueryBoundingBox \/ CallRandomIoUCrop
    \/ CallDispatcher
    \/ CallStereoRandom
    \/ CallRandomResizedCrop
    \/ CallRandomResize
    \/ CallResizeSparseFlow
    \/ CallRandomResizeAndCrop
    \/ CallToDtype
    \/ ReturnFunctional

Spec == Init /\ [][Next]_vars

(***************************************************************************)
(* The sampling loop of RandomIoUCrop._get_params, one step at a time.     *)
(* The call (self, the image size, the box) is in fcall, the position in   *)
(* the loop in fresult.  Overlap thresholds are in tenths; the scales are  *)
(* the defaults [0.3, 1.0], the aspect ratios the defaults [0.5, 2.0].     *)
(***************************************************************************)
MaxTrials == 2      \* self.trials

IoUSizes == {<<MaxSide, MaxSide>>, <<MaxSide + 1, MaxSide + 1>>}

IoUOptionLists == {<<0, 10>>, <<5, 10>>, <<10>>, <<5>>}

\* The positions in an option list.
OptionIndices == 1..2

NoCrop == [status |-> "ok", empty |-> TRUE, top |-> 0, left |-> 0, height |-> 0, width |-> 0]

\* a value of 1.0 or more encodes the leave-as-is option, here a larger one only
LeavesAsIs_strict(min_jaccard_overlap) == min_jaccard_overlap > 10

\* min_jaccard_overlap >= 1.0: a value of 1.0 or more encodes the leave-as-is option
LeavesAsIs(min_jaccard_overlap) == min_jaccard_overlap >= 10

\* The draws of one trial: int(orig * r) for r in [0.3, 1.0), and the offsets
\* int((orig - new) * r) for r in [0, 1).
IoUDraws(orig_h, orig_w) ==
    {[new_w |-> new_w, new_h |-> new_h, left |-> left, top |-> top] :
        new_w \in ((3 * orig_w) \div 10)..(orig_w - 1),
        new_h \in ((3 * orig_h) \div 10)..(orig_h - 1),
        left \in 0..(orig_w - 1), top \in 0..(orig_h - 1)}

\* box_iou(box, crop) >= min_jaccard_overlap, in tenths.
IoUAtLeast(box, left, top, right, bottom, min_jaccard_overlap) ==
    LET iw == Min(box[3], right) - Max(box[1], left)
        ih == Min(box[4], bottom) - Max(box[2], top)
        inter == IF iw > 0 /\ ih > 0 THEN iw * ih ELSE 0
        union == (box[3] - box[1]) * (box[4] - box[2]) + (right - left) * (bottom - top) - inter
    IN  10 * inter >= min_jaccard_overlap * union

\* The body of `for _ in range(self.trials)` on one draw: what it does.
IoUTrial(box, orig_h, orig_w, min_jaccard_overlap, draw) ==
    LET new_w == draw.new_w
        new_h == draw.new_h
        left == IF orig_w - new_w > 0 THEN draw.left ELSE 0
        top == IF orig_h - new_h > 0 THEN draw.top ELSE 0
        right == left + new_w
        bottom == top + new_h
    IN  IF new_h = 0 THEN [status |-> "ZeroDivisionError"]
        ELSE IF ~(new_h <= 2 * new_w /\ new_w <= 2 * new_h) THEN [status |-> "continue"]
        ELSE IF left = right \/ top = bottom THEN [status |-> "continue"]
        ELSE IF ~(/\ 2 * left < box[1] + box[3] /\ box[1] + box[3] < 2 * right
                  /\ 2 * top < box[2] + box[4] /\ box[2] + box[4] < 2 * bottom)
        THEN [status |-> "continue"]
        ELSE IF ~IoUAtLeast(box, left, top, right, bottom, min_jaccard_overlap)
        THEN [status |-> "continue"]
        ELSE [status |-> "ok", empty |-> FALSE, top |-> top, left |-> left,
              height |-> new_h, width |-> new_w]

\* The draws a trial can make at this offset range.
IoUTrialDraws(orig_h, orig_w) ==
    {d \in IoUDraws(orig_h, orig_w) :
        /\ d.left < Max(orig_w - d.new_w, 1)
        /\ d.top < Max(orig_h - d.new_h, 1)}

\* The image and the box of the call, as leaves.
IoULeaves(call) ==
    <<GeoLeaf("Image", 1, <<call.orig_h, call.orig_w>>, "XYXY"),
      Leaf("BoundingBox", 2, <<4>>, [format |-> "XYXY", canvas |-> <<call.orig_h, call.orig_w>>],
           InFormat(call.box, "XYXY"))>>

\* _get_params has returned params: forward hands them to _transform, leaf by leaf.
IoUReturned(call, params) ==
    [status |-> "ok", pc |-> "done", option |-> 0, trial |-> 0, params |-> params,
     out |-> [i \in 1..2 |-> RandomIoUCrop_transform(call.self, IoULeaves(call)[i], params, 2 + i).out]]

IoUAt(pc, option, trial) ==
    [status |-> "running", pc |-> pc, option |-> option, trial |-> trial, params |-> NoCrop,
     out |-> <<>>]

IoURunning(pc) == fcall # NoCall /\ fcall.fn = "iou_get_params" /\ fresult.pc = pc

\* idx = int(torch.randint(low=0, high=len(self.options), size=(1,))) and
\* the test of the option drawn.
IoUSampleOption(idx) ==
    /\ IoURunning("while")
    /\ idx \in 1..Len(fcall.self.options)
    /\ fresult' = IF LeavesAsIs(fcall.self.options[idx])
                  THEN IoUReturned(fcall, NoCrop)
                  ELSE IoUAt("for", fcall.self.options[idx], 0)
    /\ UNCHANGED <<fcall, tvars, dvars, qvars, nvars>>

\* One pass of the for loop that does not return.
IoUTryAgain ==
    /\ IoURunning("for")
    /\ fresult.trial < fcall.self.trials
    /\ \E draw \in IoUTrialDraws(fcall.orig_h, fcall.orig_w) :
          LET r == IoUTrial(fcall.box, fcall.orig_h, fcall.orig_w, fresult.option, draw)
          IN  /\ r.status # "ok"
              /\ fresult' = IF r.status = "continue"
                            THEN IoUAt("for", fresult.option, fresult.trial + 1)
                            ELSE [IoUAt("raised", fresult.option, fresult.trial) EXCEPT
                                     !.status = r.status]
    /\ UNCHANGED <<fcall, tvars, dvars, qvars, nvars>>

\* One pass of the for loop that returns the crop drawn.
IoUTryReturn ==
    /\ IoURunning("for")
    /\ fresult.trial < fcall.self.trials
    /\ \E draw \in IoUTrialDraws(fcall.orig_h, fcall.orig_w) :
          LET r == IoUTrial(fcall.box, fcall.orig_h, fcall.orig_w, fresult.option, draw)
          IN  /\ r.status = "ok"
              /\ fresult' = IoUReturned(fcall, r)
    /\ UNCHANGED <<fcall, tvars, dvars, qvars, nvars>>

\* The for loop is used up: back to `while True`.
IoUTrialsExhausted ==
    /\ IoURunning("for")
    /\ fresult.trial = fcall.self.trials
    /\ fresult' = IoUAt("while", 0, 0)
    /\ UNCHANGED <<fcall, tvars, dvars, qvars, nvars>>

\* The boxes that lie in an image of size hw.
IoUBoxes(hw) ==
    {b \in (0..MaxSide) \X (0..MaxSide) \X (1..MaxSide + 1) \X (1..MaxSide + 1) :
        b[1] < b[3] /\ b[2] < b[4] /\ b[3] <= hw[2] /\ b[4] <= hw[1]}

IoUCalls ==
    UNION {{[fn |-> "iou_get_params",
             self |-> [cls |-> "RandomIoUCrop", options |-> options, trials |-> trials],
             orig_h |-> hw[1], orig_w |-> hw[2], box |-> box] :
               options \in IoUOptionLists, trials \in 1..MaxTrials, box \in IoUBoxes(hw)} :
           hw \in IoUSizes}

IoUInit ==
    /\ tcall = NoCall /\ tresult = NoResult
    /\ dcall = NoCall /\ dresult = NoResult
    /\ qcall = NoCall /\ qresult = NoResult
    /\ heap = <<>> /\ ncall = NoCall /\ nresult = NoResult
    /\ fcall \in IoUCalls
    /\ fresult = IoUAt("while", 0, 0)

IoUNext ==
    \/ \E idx \in OptionIndices : IoUSampleOption(idx)
    \/ IoUTryAgain
    \/ IoUTryReturn
    \/ IoUTrialsExhausted

\* Fair sampling: an option that can be drawn again and again is drawn, and
\* a crop that can be returned again and again is returned.
IoUSpec ==
    /\ IoUInit /\ [][IoUNext]_vars
    /\ WF_vars(IoUNext)
    /\ \A idx \in OptionIndices : SF_vars(IoUSampleOption(idx))
    /\ SF_vars(IoUTryReturn)

(***************************************************************************)
(* Properties of the dispatchers, the queries, resize and normalize.       *)
(***************************************************************************)
Dispatched == dcall # NoCall
DispatchedOk == dcall # NoCall /\ dresult.status = "ok"

ImageOnlyOps == {"center_crop", "resized_crop", "affine", "rotate"}

\* C4: a dispatcher runs a kernel only when one is registered for the exact
\* type of its input, and then that kernel; any other input (an unknown
\* object, a BoundingBox or a mask given to center_crop, resized_crop,
\* affine or rotate, which register a kernel for Image only) makes the call
\* raise a TypeError that names the input's type, and no kernel runs.
C4_ExactTypeDispatch ==
    Dispatched =>
        LET t == dcall.input.type
            op == dcall.op
        IN  /\ dresult.status \in {"ok", "TypeError"}
            /\ dresult.status = "ok" =>
                  /\ t \in DOMAIN Registry(op)
                  /\ dresult.kernel = Registry(op)[t]
                  /\ dresult.out.src = dcall.input.id
            /\ dresult.status = "TypeError" =>
                  /\ dresult.named = t
                  /\ dresult.kernel = "none"
                  /\ dresult.out = NoLeaf
            /\ t = "Object" => dresult.status = "TypeError"
            /\ (op \in ImageOnlyOps /\ t # "Image") => dresult.status = "TypeError"
            /\ (op \in ImageOnlyOps /\ t = "Image") =>
                  dresult.kernel \in {"center_crop_image", "resized_crop_image",
                                      "affine_image", "rotate_image"}
            /\ (dresult.status = "ok" /\ t = "BoundingBox") =>
                  dresult.kernel \in {"_horizontal_flip_bounding_box", "_resize_bounding_box",
                                      "_to_dtype_tensor_dispatch"}

\* center_crop given a bounding box.
C4_Witness ==
    /\ Dispatched
    /\ dcall.op = "center_crop"
    /\ dcall.input.type = "BoundingBox"
    /\ dresult.status = "TypeError"
    /\ dresult.named = "BoundingBox"

\* The (C, H, W) of the images, PIL images and plain tensors of a sample.
ImageLikeChws(flat_sample) ==
    {get_chw(flat_sample[i]) :
        i \in {j \in 1..Len(flat_sample) : flat_sample[j].type \in {"Image", "PIL", "Tensor"}}}

C6_FormatPreserved ==
    /\ (DispatchedOk /\ dcall.input.type = "BoundingBox") =>
          /\ dresult.out.type = "BoundingBox"
          /\ dresult.out.meta.format = dcall.input.meta.format
          /\ dresult.out.meta.format \in Formats
    /\ ReturnedOk =>
          \A i \in 1..Len(tcall.sample.flat) :
             tcall.sample.flat[i].type = "BoundingBox" =>
                /\ tresult.out.flat[i].type = "BoundingBox"
                /\ tresult.out.flat[i].meta.format = tcall.sample.flat[i].meta.format

\* A CXCYWH box flipped horizontally by the dispatcher.
C6_Witness ==
    /\ DispatchedOk
    /\ dcall.op = "horizontal_flip"
    /\ dcall.input.type = "BoundingBox"
    /\ dcall.input.meta.format = "CXCYWH"
    /\ dresult.out.data # dcall.input.data
    /\ dresult.out.meta.format = "CXCYWH"

\* The size an image of size hw has after the resize of the call in flight.
ResizedImageSize(hw) ==
    LET r == dispatch("resize", GeoLeaf("Image", 1, hw, "XYXY"), dcall.kwargs, 2)
    IN  spatial_size(r.out)

\* C7: resize of a bounding box with a legal size (one edge length or (H, W))
\* records as canvas the size an image of the box's canvas has after the
\* same resize, and scales the coordinates by the height and width ratios.
C7_ResizedBoxFollowsImage ==
    (Dispatched /\ dcall.op = "resize" /\ dcall.input.type = "BoundingBox") =>
        LET old == dcall.input.meta.canvas
            new == ResizedImageSize(old)
        IN  /\ dresult.status = "ok"
            /\ dresult.out.meta.canvas = new
            /\ BoxEq(dresult.out.data, resize_bounding_box(dcall.input.data, old, new))

IsResize == tcall # NoCall /\ tcall.self.cls = "Resize"

\* C8: resize with a two-element size and a max_size raises a ValueError,
\* and so does resize with one edge length s and max_size <= s, for images,
\* bounding boxes, masks and videos alike; nothing is returned.
C8_MaxSizeErrors ==
    (IsResize /\ \E i \in 1..Len(tcall.sample.flat) : NeedsOf(tcall)[i]) =>
        LET size == tcall.self.size
            max_size == tcall.self.max_size
        IN  /\ (Len(size) = 2 /\ max_size # NoMaxSize) =>
                  tresult.status = "ValueError" /\ tresult.out = NoSample
            /\ (Len(size) = 1 /\ max_size # NoMaxSize /\ max_size[1] <= size[1]) =>
                  tresult.status = "ValueError" /\ tresult.out = NoSample

\* A mask resized with (H, W) and a max_size.
C8_Witness ==
    /\ IsResize
    /\ Len(tcall.self.size) = 2
    /\ tcall.self.max_size # NoMaxSize
    /\ \E i \in 1..Len(tcall.sample.flat) : tcall.sample.flat[i].type = "Mask"
    /\ tresult.status = "ValueError"

\* C9: with one edge length s and max_size m, the longer edge of the output
\* never exceeds m; when scaling the shorter edge to s would take the longer
\* edge beyond m, the longer edge is m and the shorter edge follows in
\* proportion; otherwise the shorter edge is s.  A 300 x 100 input with
\* size 100 and max_size 150 comes out 150 x 50.
C9_MaxSizeCapsLongerEdge ==
    (IsResize /\ tresult.status = "ok" /\ Len(tcall.self.size) = 1
        /\ tcall.self.max_size # NoMaxSize) =>
        \A i \in 1..Len(tcall.sample.flat) :
           NeedsOf(tcall)[i] =>
              LET inp == spatial_size(tcall.sample.flat[i])
                  out == spatial_size(tresult.out.flat[i])
                  s == tcall.self.size[1]
                  m == tcall.self.max_size[1]
                  naive == RoundDiv(Max(inp[1], inp[2]) * s, Min(inp[1], inp[2]))
                  short == Min(out[1], out[2])
                  long == Max(out[1], out[2])
                  off == short * naive - m * s
              IN  /\ long <= m
                  /\ naive > m => /\ long = m
                                  /\ short <= s
                                  /\ 2 * off <= naive /\ -2 * off <= naive
                  /\ naive <= m => short = s /\ long = naive
                  /\ (inp = <<300, 100>> /\ s = 100 /\ m = 150) => out = <<150, 50>>

\* The 300 x 100 image resized with size 100 and max_size 150.
C9_Witness ==
    /\ IsResize
    /\ tcall.self = WideSelf
    /\ tresult.status = "ok"
    /\ spatial_size(tresult.out.flat[1]) = <<150, 50>>
    /\ tresult.out.flat[2].meta.canvas = <<150, 50>>

\* (x - mean) / std, channel by channel.
Normalized(data, mean, std) == [c \in 1..Len(data) |-> <<data[c][1] - mean[c] * data[c][2], data[c][2] * std[c]>>]

SameValues(a, b) == Len(a) = Len(b) /\ \A c \in 1..Len(a) : RatEq(a[c], b[c])

\* C10: normalize with inplace = False leaves its input as it was, for every
\* mean and std, and returns another tensor; with inplace = True the tensor
\* returned is the input itself, holding the normalized values.
C10_NormalizeInplaceOnlyOnRequest ==
    ncall # NoCall =>
        LET expected == Normalized(ncall.before.data, ncall.mean, ncall.std)
        IN  /\ ~ncall.inplace => heap[ncall.input] = ncall.before
            /\ nresult.status # "ok" => heap[ncall.input] = ncall.before
            /\ (nresult.status = "ok" /\ ~ncall.inplace) =>
                  /\ nresult.out # ncall.input
                  /\ SameValues(heap[nresult.out].data, expected)
            /\ (nresult.status = "ok" /\ ncall.inplace) =>
                  /\ nresult.out = ncall.input
                  /\ SameValues(heap[ncall.input].data, expected)

\* A call with inplace = False whose result differs from its input.
C10_Witness ==
    /\ ncall # NoCall
    /\ ~ncall.inplace
    /\ nresult.status = "ok"
    /\ ~SameValues(heap[nresult.out].data, ncall.before.data)
    /\ heap[ncall.input] = ncall.before

\* C11: what a dispatcher returns has the kind of its input: for a plain
\* tensor the tensor kernel ran exactly once and the result is a plain
\* tensor, for a datapoint the result is of the same datapoint class, for a
\* PIL image it is a PIL image.
C11_ResultKindOfInput ==
    DispatchedOk =>
       /\ dcall.input.type = "Tensor" =>
             /\ dresult.out.type = "Tensor"
             /\ Len(dresult.out.ops) = 1
             /\ dresult.out.ops[1].kernel = Registry(dcall.op)["Tensor"]
       /\ dcall.input.type \in FeatureTypes => dresult.out.type = dcall.input.type
       /\ dcall.input.type = "PIL" => dresult.out.type = "PIL"

\* An Image through a v2 dispatcher: the tensor kernel ran once on it and the
\* result is an Image.
C11_Witness ==
    /\ DispatchedOk
    /\ dcall.op \in V2Ops
    /\ dcall.input.type = "Image"
    /\ dresult.out.type = "Image"
    /\ Len(dresult.out.ops) = 1
    /\ dresult.out.id # dcall.input.id

(***************************************************************************)
(* Properties of the functionals and helpers.                              *)
(***************************************************************************)
Called(fn) == fcall # NoCall /\ fcall.fn = fn

BatchChecked ==
    Called("_check_kernel_batched_vs_single") \/ Called("_test_fn_on_batch")

\* C12: a kernel applied to a batch (N stacked copies of one sample, in
\* batch shapes (4,) and (2, 3), or distinct samples) gives at every batch
\* index exactly what it gives for the sample at that index alone, and it
\* raises for the batch exactly when it raises for a sample.
C12_BatchedVsSingle ==
    BatchChecked =>
       \A ix \in Indices(fcall.batch_dims) :
          /\ fresult.expected[ix].status = fresult.status
          /\ fresult.status = "ok" =>
                select(fresult.actual, ix) = fresult.expected[ix].out

\* A batch of shape (2, 3) blurred: the sample at the last index is the
\* blurred sample of that index, as when blurred alone.
C12_Witness ==
    /\ Called("_check_kernel_batched_vs_single")
    /\ fcall.kernel = "gaussian_blur_image_tensor"
    /\ fcall.batch_dims = <<2, 3>>
    /\ fresult.status = "ok"
    /\ select(fresult.actual, <<2, 3>>) = fresult.expected[<<2, 3>>].out
    /\ select(fresult.actual, <<2, 3>>).of = select(fcall.batch, <<2, 3>>)

\* Two values are the same: class, shape, metadata and content.
SameValue(a, b) ==
    /\ a.type = b.type
    /\ a.shape = b.shape
    /\ a.meta = b.meta
    /\ IF a.type = "BoundingBox" THEN BoxEq(a.data, b.data) ELSE a.data = b.data

\* C13: a horizontal flip applied twice gives back the original value, and
\* so does a vertical flip, for images, masks and bounding boxes; one flip
\* of a box of any format maps x to w - x with x_min and x_max swapped (y to
\* h - y for the vertical flip) and keeps the format and the canvas size.
C13_FlipInvolution ==
    (Called("flip_twice") /\ fresult.status = "ok") =>
       /\ SameValue(fresult.out, fcall.input)
       /\ fcall.input.type = "BoundingBox" =>
             LET b == ToXYXY(fcall.input.data, fcall.input.meta.format)
                 f == ToXYXY(fresult.once.data, fresult.once.meta.format)
                 H == fcall.input.meta.canvas[1]
                 W == fcall.input.meta.canvas[2]
             IN  /\ fresult.once.type = "BoundingBox"
                 /\ fresult.once.meta = fcall.input.meta
                 /\ IF fcall.flip = "F.vertical_flip"
                    THEN BoxEq(f, <<b[1], IntMinusRat(H, b[4]), b[3], IntMinusRat(H, b[2])>>)
                    ELSE BoxEq(f, <<IntMinusRat(W, b[3]), b[2], IntMinusRat(W, b[1]), b[4]>>)

\* An XYWH box flipped twice by the dispatcher: moved by the first flip, back
\* in place after the second.
C13_Witness ==
    /\ Called("flip_twice")
    /\ fcall.flip = "horizontal_flip"
    /\ fcall.input.type = "BoundingBox"
    /\ fcall.input.meta.format = "XYWH"
    /\ fresult.status = "ok"
    /\ ~BoxEq(fresult.once.data, fcall.input.data)
    /\ BoxEq(fresult.out.data, fcall.input.data)

\* C14: padding a value of size (H, W) by p >= 0 on all four sides in
\* constant mode and cropping with top = p, left = p, height = H, width = W
\* gives back the value: the pixels, and for a box the coordinates and the
\* canvas size.
C14_CropPadRoundTrip ==
    Called("pad_then_crop") => SameValue(fresult.out, fcall.input)

\* An image padded by one pixel and cropped back by RandomCrop._transform.
C14_Witness ==
    /\ Called("pad_then_crop")
    /\ fcall.via = "RandomCrop"
    /\ fcall.p > 0
    /\ fcall.input.type = "Image"
    /\ fresult.out.data = fcall.input.data
    /\ Len(fresult.out.ops) = 2
    /\ fresult.out.ops[1].kernel = "pad"

\* (left, top, right, bottom) from a padding argument, as documented.
ExpectedSides(padding) ==
    IF Len(padding) = 1 THEN <<padding[1], padding[1], padding[1], padding[1]>>
    ELSE IF Len(padding) = 2 THEN <<padding[1], padding[2], padding[1], padding[2]>>
    ELSE padding

\* C15: pad expands one value v to (v, v, v, v), two values (a, b) to
\* (a, b, a, b) and uses four values as (left, top, right, bottom): the
\* padded value grows by left + right in width and top + bottom in height, an
\* image keeps its pixels at offset (left, top) inside a frame of fill
\* values, a box has its corners shifted by (left, top) and keeps its format;
\* RandomCrop constructed with the same padding pads the same amounts on
\* the same sides.
C15_PadSides ==
    Called("pad") =>
       LET e == ExpectedSides(fcall.padding)
           x == fcall.input
           out == fresult.out
           hw == spatial_size(x)
       IN  /\ fresult.status = "ok"
           /\ spatial_size(out) = <<hw[1] + e[2] + e[4], hw[2] + e[1] + e[3]>>
           /\ out.type = x.type
           /\ IF x.type = "BoundingBox"
              THEN /\ out.meta.format = x.meta.format
                   /\ LET b == ToXYXY(x.data, x.meta.format)
                      IN  BoxEq(ToXYXY(out.data, out.meta.format),
                                <<RatAddInt(b[1], e[1]), RatAddInt(b[2], e[2]),
                                  RatAddInt(b[3], e[1]), RatAddInt(b[4], e[2])>>)
              ELSE /\ Len(out.data) = hw[1] + e[2] + e[4]
                   /\ \A r \in 1..Len(out.data) :
                         /\ Len(out.data[r]) = hw[2] + e[1] + e[3]
                         /\ \A c \in 1..Len(out.data[r]) :
                               out.data[r][c] =
                                  IF r - e[2] \in 1..hw[1] /\ c - e[1] \in 1..hw[2]
                                  THEN x.data[r - e[2]][c - e[1]]
                                  ELSE 0

\* RandomCrop with padding (1, 0, 0, 0): one column of fill values on the
\* left of the image and nowhere else.
C15_Witness ==
    /\ Called("pad")
    /\ fcall.via = "RandomCrop"
    /\ fcall.padding = <<1, 0, 0, 0>>
    /\ fcall.input.type = "Image"
    /\ fresult.status = "ok"
    /\ fresult.out.data[1][1] = 0
    /\ fresult.out.data[1][2] = fcall.input.data[1][1]
    /\ Len(fresult.out.data) = Len(fcall.input.data)

\* C16: RandomCrop with pad_if_needed never raises the error of a crop larger
\* than the input: the window drawn lies inside the padded input (0 <= top <=
\* padded height - crop height, 0 <= left <= padded width - crop width) and
\* every leaf with a size comes out with exactly the size asked for.  Without
\* pad_if_needed, a padded input smaller than the crop on either axis raises
\* ValueError while the parameters are computed: no kernel has run, no sample
\* is returned.
CropCase ==
    LET self == fcall.self
        hw == spatial_size(fcall.sample.flat[Len(fcall.sample.flat)])
        given == self.padding # <<>>
    IN  [height |-> hw[1] + (IF given THEN self.padding[3] + self.padding[4] ELSE 0),
         width |-> hw[2] + (IF given THEN self.padding[1] + self.padding[2] ELSE 0)]

CropTooLarge ==
    \/ CropCase.height < fcall.self.size[1]
    \/ CropCase.width < fcall.self.size[2]

C16_PadIfNeeded ==
    Called("random_crop") =>
        LET self == fcall.self
            flat == fcall.sample.flat
            out == fresult.out.flat
        IN  /\ self.pad_if_needed =>
                /\ fresult.status = "ok"
                /\ \A i \in 1..Len(flat) :
                       has_spatial_size(flat[i]) =>
                          LET p == fresult.passed[i]
                              padded_height == spatial_size(flat[i])[1] + p.padding[2] + p.padding[4]
                              padded_width == spatial_size(flat[i])[2] + p.padding[1] + p.padding[3]
                          IN  /\ padded_height >= CropCase.height
                              /\ padded_width >= CropCase.width
                              /\ 0 <= p.top /\ p.top <= padded_height - self.size[1]
                              /\ 0 <= p.left /\ p.left <= padded_width - self.size[2]
                              /\ spatial_size(out[i]) = self.size
            /\ (~self.pad_if_needed /\ CropTooLarge) =>
                /\ fresult.status = "ValueError"
                /\ fresult.kernels = 0
                /\ fresult.out = NoSample
            /\ (~self.pad_if_needed /\ ~CropTooLarge) =>
                /\ fresult.status = "ok"
                /\ \A i \in 1..Len(flat) :
                       has_spatial_size(flat[i]) => spatial_size(out[i]) = self.size

\* A crop larger than the padded input on both axes, padded up and cropped at
\* a window away from the corner.
C16_Witness ==
    /\ Called("random_crop")
    /\ fcall.self.pad_if_needed
    /\ fcall.self.padding # <<>>
    /\ CropCase.height < fcall.self.size[1]
    /\ CropCase.width < fcall.self.size[2]
    /\ fresult.status = "ok"
    /\ Len(fcall.sample.flat) = 3
    /\ fresult.passed[3].top > 0
    /\ fresult.passed[3].left > 0
    /\ fresult.kernels = 2

\* C17: a sequential composition invokes its stages strictly in list order,
\* the first on the sample given and each later one on the complete output of
\* the stage before it.  When a stage raises, its error is the error of the
\* composition, no later stage is invoked and no sample is returned;
\* otherwise every stage is invoked once and the output of the last one is
\* returned.
C17_ComposeInOrder ==
    Called("compose") =>
        LET transforms == fcall.transforms
            trace == fresult.trace
            n == Len(trace)
        IN  /\ n <= Len(transforms)
            /\ \A j \in 1..n :
                   /\ trace[j].t = transforms[j]
                   /\ trace[j].input = (IF j = 1 THEN fcall.sample ELSE trace[j - 1].output)
                   /\ StereoStage_forward(transforms[j], trace[j].input).status = trace[j].status
                   /\ StereoStage_forward(transforms[j], trace[j].input).out = trace[j].output
                   /\ j < n => trace[j].status = "ok"
            /\ IF n > 0 /\ trace[n].status # "ok"
               THEN /\ fresult.status = trace[n].status
                    /\ fresult.out = NoStereoSample
               ELSE /\ n = Len(transforms)
                    /\ fresult.status = "ok"
                    /\ fresult.out = (IF n = 0 THEN fcall.sample ELSE trace[n].output)

\* The second of three stages raises, on a sample the first stage changed.
C17_Witness ==
    /\ Called("compose")
    /\ Len(fcall.transforms) = MaxStages
    /\ Len(fresult.trace) = 2
    /\ fresult.status = "TypeError"
    /\ fresult.trace[1].output # fcall.sample
    /\ fresult.out = NoStereoSample

\* C18: rotate called with expand = true together with a center override is
\* rejected with an invalid-argument error instead of producing an output.
C18_ExpandWithCenterRejected ==
    (Called("rotate") /\ fcall.expand /\ fcall.center # NoCenter) =>
        /\ fresult.status # "ok"
        /\ fresult.out = NoLeaf

\* What the code does instead: a center of two entries is accepted together
\* with expand, and the output is the expanded one of the call without center.
C18_ExpandWithCenterAccepted ==
    (Called("rotate") /\ fcall.expand /\ fcall.center # NoCenter /\ Len(fcall.center) = 2) =>
        /\ fresult.status = "ok"
        /\ fresult.out.ops[Len(fresult.out.ops)].kernel = "rotate"
        /\ \E a \in Angles :
              fresult.out.shape = F_rotate(fcall.input, a, TRUE, NoCenter, 2).out.shape

C18_Witness ==
    /\ Called("rotate")
    /\ fcall.via = "RandomRotation"
    /\ fcall.expand
    /\ fcall.center = <<1, MaxSide - 1>>
    /\ fresult.status = "ok"
    /\ spatial_size(fresult.out) # spatial_size(fcall.input)

\* C19: the like-constructor (Feature.new_like called on the class of the
\* reference, tv_tensors.wrap) returns a value of the reference's class around
\* the data given, carrying every metadata field of the reference (format,
\* canvas size) but those overridden by keyword; the reference keeps its own
\* metadata; for a reference that is no bounding box, wrap ignores the
\* keywords.
C19_LikeConstructor ==
    Called("like") =>
        LET like == fcall.like
            kwargs == fcall.kwargs
            out == fresult.out
        IN  /\ fresult.status = "ok"
            /\ out.type = like.type
            /\ out.id = fcall.data.id /\ out.data = fcall.data.data
            /\ out.shape = fcall.data.shape
            /\ \A k \in DOMAIN like.meta :
                   out.meta[k] = IF like.type = "BoundingBox" /\ k \in DOMAIN kwargs
                                 THEN kwargs[k] ELSE like.meta[k]
            /\ fresult.other = like
            /\ (fcall.via = "wrap" /\ like.type # "BoundingBox") =>
                  out = wrap(fcall.data, like, NoMetadata)

\* A format overridden, the canvas size carried over from the reference.
C19_Witness ==
    /\ Called("like")
    /\ fcall.via = "new_like"
    /\ fcall.like.type = "BoundingBox"
    /\ fcall.like.meta.format = "CXCYWH"
    /\ fcall.kwargs = [format |-> "XYWH"]
    /\ fresult.out.meta = [format |-> "XYWH", canvas |-> fcall.like.meta.canvas]
    /\ fresult.other.meta.format = "CXCYWH"

\* C20: a transform that needs a bounding box fails when there is none:
\* query_bounding_box returns the first BoundingBox in flatten order and
\* raises when the sample holds none, and RandomIoUCrop rejects, before any
\* parameter is computed, every sample that lacks a BoundingBox or lacks an
\* image (PIL image, Image or plain tensor).
C20_MissingRequiredLeaf ==
    /\ Called("query_bounding_box") =>
          LET flat == fcall.sample
              boxes == {i \in 1..Len(flat) : flat[i].type = "BoundingBox"}
          IN  IF boxes = {}
              THEN fresult.status = "TypeError" /\ fresult.value = NoLeaf
              ELSE /\ fresult.status = "ok"
                   /\ fresult.value.type = "BoundingBox"
                   /\ fresult.value = flat[fresult.value.id]
                   /\ \A j \in boxes : fresult.value.id <= j
    /\ Called("random_iou_crop") =>
          LET flat == fcall.sample.flat
              lacks_box == \A i \in 1..Len(flat) : flat[i].type # "BoundingBox"
              lacks_image == \A i \in 1..Len(flat) : flat[i].type \notin {"PIL", "Image", "Tensor"}
          IN  IF lacks_box \/ lacks_image
              THEN /\ fresult.status = "TypeError"
                   /\ fresult.nparams = 0
                   /\ fresult.kernels = 0
                   /\ fresult.out = NoSample
              ELSE /\ fresult.status = "ok"
                   /\ fresult.nparams = 1

\* A sample with an image and a mask but no bounding box is rejected.
C20_Witness ==
    /\ Called("random_iou_crop")
    /\ Len(fcall.sample.flat) = 2
    /\ fcall.sample.flat[1].type = "Image"
    /\ fcall.sample.flat[2].type = "Mask"
    /\ fresult.status = "TypeError"
    /\ fresult.nparams = 0

(***************************************************************************)
(* Properties of the usage telemetry.                                      *)
(***************************************************************************)
EagerDispatcher == Called("dispatcher") /\ ~fcall.scripting

UsageKey(op) == <<DispatcherModule(op), op>>

\* C21 as stated: a dispatcher call (normalize, gaussian_blur, to_dtype,
\* resize) emits the usage event keyed by the dispatcher's qualified name on
\* a successful dispatch, the event does not change the kernel's result, and
\* a call whose dispatch fails emits no event.
C21_NoEventOnFailedDispatch ==
    EagerDispatcher =>
       /\ fresult.status = "ok" => fresult.log = <<UsageKey(fcall.op)>>
       /\ fresult.status = "ok" /\ fcall.input.type = "Tensor" /\ fcall.op # "resize" =>
             fresult.out = RunKernel(ScriptedKernel(fcall.op), fcall.input, fcall.kwargs, 2)
       /\ fresult.status # "ok" => fresult.log = <<>>

\* C21, amended: a successful dispatch has emitted exactly the event keyed
\* by the dispatcher's qualified name, and the result on a plain tensor is
\* the one the kernel gives when called without the event (under
\* scripting, which emits none); normalize, gaussian_blur and to_dtype emit
\* the event before the kernel is looked up, so a call whose dispatch fails
\* with a TypeError has emitted it as well.
C21_EventBeforeKernelLookup ==
    /\ EagerDispatcher =>
          /\ fresult.status = "ok" => fresult.log = <<UsageKey(fcall.op)>>
          /\ fresult.status = "ok" /\ fcall.input.type = "Tensor" /\ fcall.op # "resize" =>
                fresult.out = RunKernel(ScriptedKernel(fcall.op), fcall.input, fcall.kwargs, 2)
          /\ fcall.op \in V2Ops =>
                /\ fresult.log = <<UsageKey(fcall.op)>>
                /\ fresult.status = "ok" <=> fcall.input.type \in DOMAIN Registry(fcall.op)
                /\ fresult.status # "ok" => fresult.status = "TypeError" /\ fresult.out = NoLeaf
    /\ Called("dispatcher") /\ fcall.scripting => fresult.log = <<>> /\ fresult.status = "ok"

\* normalize on an input of an unknown type: the TypeError comes after the event.
C21_Witness ==
    /\ EagerDispatcher
    /\ fcall.op = "normalize"
    /\ fcall.input.type = "Object"
    /\ fresult.status = "TypeError"
    /\ fresult.log = <<(<<"torchvision.transforms.v2.functional._misc", "normalize">>)>>

(***************************************************************************)
(* Properties of the random stereo transforms.                             *)
(***************************************************************************)
\* The operation of the transform called has acted on the sample.
StereoApplied ==
    /\ fresult.status = "ok"
    /\ CASE fcall.self.cls = "RandomHorizontalFlip" ->
                fresult.out.images = <<StereoOp(fcall.sample.images[2], "hflip"),
                                       StereoOp(fcall.sample.images[1], "hflip")>>
         [] fcall.self.cls = "RandomErase" ->
                /\ fresult.out.images[1].ops # <<>>
                /\ fresult.out.images[2].ops # <<>>
         [] fcall.self.cls \in {"RandomOcclusion", "RandomSpatialShift"} ->
                /\ fresult.out.images[1] = fcall.sample.images[1]
                /\ fresult.out.images[2].ops # <<>>

\* C22: a stereo transform taking a probability (RandomHorizontalFlip,
\* RandomErase, RandomOcclusion, RandomSpatialShift) returns its images,
\* disparities and masks unaltered for every draw when p = 0, and applies
\* its operation on every call when p = 1.
C22_NeverAtZeroAlwaysAtOne ==
    Called("stereo_random") =>
       /\ fcall.self.p = 0 => fresult.status = "ok" /\ fresult.out = fcall.sample
       /\ fcall.self.p = PDen => StereoApplied

\* C27: the stereo RandomHorizontalFlip treats a sample atomically: either
\* images, disparities and masks come back untouched, or both images, both
\* disparities and every mask that is not None are mirrored and swapped
\* left/right together, so a mirrored image never comes with an unmirrored
\* mask, whichever masks are None.
C27_FlipAllOrNothing ==
    Called("stereo_random") /\ fcall.self.cls = "RandomHorizontalFlip" /\ fresult.status = "ok" =>
       LET mirrored(x) == IF IsNone(x) THEN x ELSE StereoOp(x, "hflip")
           swapped(pair) == <<mirrored(pair[2]), mirrored(pair[1])>>
       IN  \/ fresult.out = fcall.sample
           \/ /\ fresult.out.images = swapped(fcall.sample.images)
              /\ fresult.out.disparities = swapped(fcall.sample.disparities)
              /\ fresult.out.masks = swapped(fcall.sample.masks)

(***************************************************************************)
(* Properties of the sampling loop of RandomIoUCrop._get_params.           *)
(***************************************************************************)
IoUStarted == fcall # NoCall /\ fcall.fn = "iou_get_params"

IoUEnded == IoUStarted /\ fresult.pc \in {"done", "raised"}

\* Some option of the call is 1.0 or more.
HasLeaveAsIsOption ==
    \E idx \in 1..Len(fcall.self.options) : fcall.self.options[idx] >= 10

\* Some crop the loop can draw meets the threshold of some option.
HasSatisfyingCrop ==
    \E idx \in 1..Len(fcall.self.options) :
    \E new_w \in 1..(fcall.orig_w - 1), new_h \in 1..(fcall.orig_h - 1) :
    \E left \in 0..(fcall.orig_w - new_w - 1), top \in 0..(fcall.orig_h - new_h - 1) :
       /\ 10 * new_w >= 3 * fcall.orig_w - 9 /\ 10 * new_h >= 3 * fcall.orig_h - 9
       /\ new_h <= 2 * new_w /\ new_w <= 2 * new_h
       /\ 2 * left < fcall.box[1] + fcall.box[3] /\ fcall.box[1] + fcall.box[3] < 2 * (left + new_w)
       /\ 2 * top < fcall.box[2] + fcall.box[4] /\ fcall.box[2] + fcall.box[4] < 2 * (top + new_h)
       /\ IoUAtLeast(fcall.box, left, top, left + new_w, top + new_h, fcall.self.options[idx])

IoUCropIsSound ==
    fresult.pc = "done" /\ ~fresult.params.empty =>
       LET c == fresult.params
       IN  /\ c.width > 0 /\ c.height > 0
           /\ 0 <= c.left /\ c.left + c.width <= fcall.orig_w
           /\ 0 <= c.top /\ c.top + c.height <= fcall.orig_h
           /\ 2 * c.left < fcall.box[1] + fcall.box[3]
           /\ fcall.box[1] + fcall.box[3] < 2 * (c.left + c.width)
           /\ 2 * c.top < fcall.box[2] + fcall.box[4]
           /\ fcall.box[2] + fcall.box[4] < 2 * (c.top + c.height)

\* With the empty parameter set every leaf comes back as it was.
IoULeftAsIs ==
    fresult.pc = "done" /\ fresult.params.empty => fresult.out = IoULeaves(fcall)

\* C24: for every image size H, W >= 1 a non-empty parameter set returned
\* by RandomIoUCrop._get_params is a crop of positive width and height
\* inside the image that strictly contains the center of a box; a candidate
\* of zero width or height is skipped, never returned and never raises; with
\* the empty parameter set _transform returns every leaf unchanged.
C24_CropInsideImageNeverRaises ==
    IoUStarted => IoUCropIsSound /\ IoULeftAsIs /\ fresult.pc # "raised"

\* C25: RandomResizedCrop._get_params returns after at most 10 sampling
\* attempts, and for every image size H, W >= 1 and every scale / ratio
\* configuration the window returned has 0 < height <= H, 0 < width <= W,
\* 0 <= top <= H - height and 0 <= left <= W - width, the central-crop
\* fallback included.
C25_WindowInsideImage ==
    Called("random_resized_crop") =>
       /\ fresult.status = "ok"
       /\ fresult.attempts <= 10
       /\ 0 < fresult.height /\ fresult.height <= fcall.height
       /\ 0 < fresult.width /\ fresult.width <= fcall.width
       /\ 0 <= fresult.top /\ fresult.top <= fcall.height - fresult.height
       /\ 0 <= fresult.left /\ fresult.left <= fcall.width - fresult.width

\* C26: RandomResize._get_params returns a size s with min_size <= s <=
\* max_size for every configuration with min_size <= max_size, and with
\* min_size = max_size, the configuration SegmentationPresetEval builds to
\* resize to base_size, s is that value.
C26_SizeWithinBounds ==
    Called("random_resize") =>
       /\ fresult.status = "ok"
       /\ Len(fresult.size) = 1
       /\ fcall.self.min_size <= fresult.size[1]
       /\ fresult.size[1] <= fcall.self.max_size

(***************************************************************************)
(* Properties of the stereo resizing.                                      *)
(***************************************************************************)
\* round(k * scale), a tie to the even one.
Scaled(k, scale) == RoundDiv(k * scale[1], scale[2])

\* The valid pixels (i, j) of the input that go to the position (a, b).
SourcesOf(a, b) ==
    {ij \in (0..(Len(fcall.flow) - 1)) \X (0..(Len(fcall.flow[1]) - 1)) :
        /\ fcall.valid_flow_mask[ij[1] + 1][ij[2] + 1]
        /\ Scaled(ij[1], fcall.scale_y) = a
        /\ Scaled(ij[2], fcall.scale_x) = b}

\* C29: _resize_sparse_flow(flow, mask, scale_x, scale_y) on an (h, w) input
\* returns a flow and a mask of size (round(h * scale_y), round(w * scale_x))
\* and leaves its inputs as they were; an output position is valid iff some
\* valid input pixel (i, j) goes to it as (round(i * scale_y),
\* round(j * scale_x)) within bounds, its flow being that pixel's flow times
\* scale_x; so the output has as many valid pixels as the input, less those
\* sent out of bounds or onto a position already taken.
C29_SparseFlowResized ==
    Called("_resize_sparse_flow") =>
       LET h_new == Scaled(Len(fcall.flow), fcall.scale_y)
           w_new == Scaled(Len(fcall.flow[1]), fcall.scale_x)
           positions == (0..(h_new - 1)) \X (0..(w_new - 1))
           valid_out == {p \in positions : fresult.valid_new[p[1] + 1][p[2] + 1]}
       IN  /\ Len(fresult.flow_new) = h_new /\ Len(fresult.valid_new) = h_new
           /\ \A a \in 1..h_new :
                 Len(fresult.flow_new[a]) = w_new /\ Len(fresult.valid_new[a]) = w_new
           /\ fresult.flow = fcall.flow /\ fresult.valid_flow_mask = fcall.valid_flow_mask
           /\ \A p \in positions :
                 /\ p \in valid_out <=> SourcesOf(p[1], p[2]) # {}
                 /\ p \in valid_out =>
                       \E ij \in SourcesOf(p[1], p[2]) :
                          fresult.flow_new[p[1] + 1][p[2] + 1]
                             = <<fcall.flow[ij[1] + 1][ij[2] + 1] * fcall.scale_x[1], fcall.scale_x[2]>>
                 /\ p \notin valid_out => fresult.flow_new[p[1] + 1][p[2] + 1] = <<0, 1>>
           /\ Cardinality(valid_out)
                 = Cardinality({<<Scaled(ij[1], fcall.scale_y), Scaled(ij[2], fcall.scale_x)>> :
                                  ij \in {x \in (0..(Len(fcall.flow) - 1)) \X (0..(Len(fcall.flow[1]) - 1)) :
                                             /\ fcall.valid_flow_mask[x[1] + 1][x[2] + 1]
                                             /\ Scaled(x[1], fcall.scale_y) < h_new
                                             /\ Scaled(x[2], fcall.scale_x) < w_new}})

\* Halving a row of two valid pixels: both go to position 0, one of them is
\* kept; the flow is scaled by scale_x, not by scale_y.
C29_Witness ==
    /\ Called("_resize_sparse_flow")
    /\ Len(fcall.flow) = 1 /\ Len(fcall.flow[1]) = 2
    /\ fcall.valid_flow_mask = <<(<<TRUE, TRUE>>)>>
    /\ fcall.scale_x = <<1, 2>> /\ fcall.scale_y = <<2, 1>>
    /\ fresult.valid_new = <<(<<TRUE>>), (<<FALSE>>)>>
    /\ fresult.flow_new[1][1] = <<2, 2>>

\* The output x for the input x0 of one view: None for None, else cut from
\* that view to crop_size with the window of the left image.
CutFromOwnView(x, x0) ==
    IF IsNone(x0) THEN IsNone(x)
    ELSE /\ ~IsNone(x)
         /\ SubSeq(x.shape, Len(x.shape) - 1, Len(x.shape)) = fcall.self.crop_size
         /\ x.ops[1] = x0.ops[1]
         /\ x.window = fresult.out.images[1].window

\* C28: the stereo RandomResizeAndCrop returns both images and every
\* disparity and mask that is not None with spatial size crop_size, all cut
\* with the same (y0, x0) window; a disparity or mask that is None on input
\* is None on output and never takes a value that comes from the other
\* view, with or without the resize and for dense and sparse disparities.
C28_SameWindowOwnView ==
    Called("resize_and_crop") /\ fresult.status = "ok" =>
       \A k \in 1..2 :
          /\ CutFromOwnView(fresult.out.images[k], fcall.sample.images[k])
          /\ CutFromOwnView(fresult.out.disparities[k], fcall.sample.disparities[k])
          /\ CutFromOwnView(fresult.out.masks[k], fcall.sample.masks[k])

\* The value bits of an integer tensor whose value lies in [0, 2^bits - 1],
\* and the tensor's value as a number without leading zeros.
ValueBits(x) ==
    SubSeq(x.value, Len(x.value) - _num_value_bits(x.dtype).value + 1, Len(x.value))

RECURSIVE Numeral(_)
Numeral(bits) ==
    IF bits = <<>> THEN <<>> ELSE IF bits[1] = 0 THEN Numeral(Tail(bits)) ELSE bits

InRange(x) ==
    \A i \in 1..(Len(x.value) - _num_value_bits(x.dtype).value) : x.value[i] = 0

ImageKernelCall ==
    Called("to_dtype") /\ fcall.input.type \in {"Tensor", "Image", "Video"}

IntToIntScaled ==
    /\ ImageKernelCall /\ fcall.scale
    /\ fcall.input.dtype \in IntDtypes /\ fcall.dtype \in IntDtypes
    /\ fcall.input.dtype # fcall.dtype

\* C30: to_dtype_image_tensor with scale=True between integer dtypes stays
\* in the target range: v in [0, 2^bits_in - 1] becomes v >> (bits_in -
\* bits_out) when narrowing and v << (bits_out - bits_in) when widening, and
\* widening then narrowing back returns v; with the dtype the input has, the
\* identical input is returned; float32 to int32/int64 and float64 to int64
\* raise a RuntimeError; bounding boxes and masks are cast, never scaled.
C30_ToDtypeScales ==
    /\ IntToIntScaled =>
          LET v == ValueBits(fcall.input)
              bits_in == _num_value_bits(fcall.input.dtype).value
              bits_out == _num_value_bits(fcall.dtype).value
              back == to_dtype_image_tensor(fresult.out, fcall.input.dtype, TRUE)
          IN  /\ fresult.status = "ok"
              /\ fresult.out.dtype = fcall.dtype
              /\ InRange(fresult.out)
              /\ bits_in > bits_out => ValueBits(fresult.out) = SubSeq(v, 1, bits_out)
              /\ bits_in <= bits_out =>
                    /\ ValueBits(fresult.out) = v \o Zeros(bits_out - bits_in)
                    /\ back.status = "ok" /\ back.out.value = fcall.input.value
    /\ ImageKernelCall /\ fcall.input.dtype = fcall.dtype =>
          fresult.status = "ok" /\ fresult.out = fcall.input
    /\ /\ ImageKernelCall /\ fcall.scale
       /\ \/ fcall.input.dtype = "float32" /\ fcall.dtype \in {"int32", "int64"}
          \/ fcall.input.dtype = "float64" /\ fcall.dtype = "int64"
       => fresult.status = "RuntimeError"
    /\ Called("to_dtype") /\ fcall.input.type \in {"BoundingBoxes", "Mask"} =>
          /\ fresult.status = "ok"
          /\ fresult.out.type = fcall.input.type /\ fresult.out.dtype = fcall.dtype
          /\ fcall.input.dtype \in IntDtypes /\ fcall.dtype \in FloatDtypes =>
                fresult.out.value = [num |-> fcall.input.value, den |-> <<1>>]
          /\ /\ fcall.input.dtype \in IntDtypes /\ fcall.dtype \in IntDtypes
             /\ Len(Numeral(fcall.input.value)) <= _num_value_bits(fcall.dtype).value
             => Numeral(fresult.out.value) = Numeral(fcall.input.value)
          /\ fcall.input.dtype \in FloatDtypes /\ fcall.dtype \in FloatDtypes =>
                fresult.out.value = fcall.input.value

\* A narrowing conversion of an image whose result is not zero.
C30_Witness ==
    /\ IntToIntScaled
    /\ fcall.input.dtype = "int64" /\ fcall.dtype = "uint8"
    /\ fresult.status = "ok"
    /\ ValueBits(fresult.out) = <<1, 0, 1, 0, 1, 0, 1, 0>>

=============================================================================
